---- MODULE Spec2Model ----
(***************************************************************************)
(* State-machine model of the trading engine (engine/trading_engine.py),   *)
(* its spot and margin accounts (engine/accounts/*.py), the order record   *)
(* (engine/orders/order.py), the fee calculator and the market tape.       *)
(*                                                                         *)
(* Units.  The code computes in binary floating point; the model computes  *)
(* the same expressions over the rationals in fixed point:                 *)
(*   raw price (tape close)        integer                                 *)
(*   executed price (slipped)      1e-4   (raw * (10^4 +- slippage))       *)
(*   quantity                      1e-6   (MINIMUM_QTY_STEP = 10 units)    *)
(*   money                         1e-12  (= quantity unit * price unit    *)
(*                                         / 100)                          *)
(*   liquidation price             1e-8                                    *)
(*   percentages                   1e-4 percent                            *)
(* With quantities that are multiples of the step and leverages dividing   *)
(* 1000, notional, margin and trade fee are exact; borrow fee, short       *)
(* liquidation price and percentages are rounded toward zero to the unit.  *)
(***************************************************************************)
EXTENDS Integers, Sequences, FiniteSets, TLC

VARIABLES users, orders, current_ts, last

vars == <<users, orders, current_ts, last>>

(***************************************************************************)
(* Bounds of the model.                                                    *)
(***************************************************************************)
NBars == 2               \* bars on the tape
MaxOrders == 2           \* orders the accounts take in
MarginInitCash == 20200000      \* margin_initial_cash, 2.02e-5
SpotInitCash == 15000000        \* spot_initial_cash, 1.5e-5

(***************************************************************************)
(* configs/config.py                                                       *)
(***************************************************************************)
SLIPPAGE_SPOT == 5              \* 0.0005 in 1e-4
SLIPPAGE_MARGIN == 7            \* 0.0007 in 1e-4
FEE_SPOT == 10                  \* 0.001 in 1e-4
FEE_MARGIN == 10                \* 0.001 in 1e-4
BORROW_INTEREST_HOURLY == 65938 \* 0.0000065938 in 1e-10
MINIMUM_QTY_STEP == 10          \* 0.00001 in 1e-6
MARGIN_MAX_LEVERAGE == 10
RATE_MARGIN_BUY == 5            \* 0.05 in 1e-2
RATE_MARGIN_SELL == 476190501   \* 0.0476190501 in 1e-10

SLIPPAGE == [spot |-> SLIPPAGE_SPOT, margin |-> SLIPPAGE_MARGIN]
FEE_STRUCTURE == [spot |-> FEE_SPOT, margin |-> FEE_MARGIN]

\* Python's None in a numeric field (outside every value the code computes).
None == -(2^30)

LONG_POSITIONS == {"buy", "long"}
SHORT_POSITIONS == {"sell", "short"}
ACCOUNT_MODES == <<"spot", "margin">>

(***************************************************************************)
(* Exact integer arithmetic within 32 bits.                                *)
(***************************************************************************)
\* the radix in which MulDivRem reads n: d * Radix(d) <= 2^30
Radix(d) ==
    IF d <= 2^14 THEN 2^16
    ELSE IF d <= 2^17 THEN 2^13
    ELSE IF d <= 2^20 THEN 2^10
    ELSE IF d <= 2^24 THEN 2^6
    ELSE IF d <= 2^27 THEN 2^3
    ELSE 2

\* <<q, r>> with a*n = q*d + r and 0 <= r < d, digit by digit on n
\* (0 <= a < d, n >= 0, 0 < d <= 2^29), so that no product leaves 32 bits
MulDivStep(h, a, digit, d, R) ==
    <<h[1] * R + ((h[2] * R + a * digit) \div d), (h[2] * R + a * digit) % d>>

RECURSIVE MulDivDigits(_, _, _, _)
MulDivDigits(a, n, d, R) ==
    IF n = 0 THEN <<0, 0>>
    ELSE MulDivStep(MulDivDigits(a, n \div R, d, R), a, n % R, d, R)

MulDivAdd(q, f) == <<q + f[1], f[2]>>

\* <<q, r>> with a*n = q*d + r and 0 <= r < d (a, n >= 0, 0 < d <= 2^29)
MulDivRem(a, n, d) ==
    MulDivAdd((a \div d) * n, MulDivDigits(a % d, n, d, Radix(d)))

\* floor(a*n/d) for a, n >= 0.
MulDivFloor(a, n, d) == MulDivRem(a, n, d)[1]

\* a*n/d rounded toward zero, a of either sign.
MulDivTrunc(a, n, d) ==
    (IF a >= 0 THEN 1 ELSE -1) * MulDivFloor(IF a >= 0 THEN a ELSE -a, n, d)


(***************************************************************************)
(* Market tape (engine/market_data/market_data.py): hourly bars 1..NBars   *)
(* for every asset; assets[0] paces the clock.                             *)
(***************************************************************************)
assets == <<"A", "B", "C">>
AssetSet == {assets[i] : i \in 1..Len(assets)}
Bars == 1..NBars

\* close of the bar: A falls one unit per bar from 10, B rises from 9.  C is
\* priced like B on the bars it has.
Close(asset, ts) == IF asset = "A" THEN 11 - ts ELSE ts

\* MarketData.get_price finds a row: the tapes of A and B have every bar, the
\* tape of C has the first bar only (the constructor accepts such tapes)
HasPrice(asset, ts) == asset \in AssetSet /\ ts \in Bars /\ (asset = "C" => ts = 1)

get_first_timestamp(asset) == 1

\* <<done, next_timestamp>>
get_next_timestamp(asset, ts) ==
    IF ts + 1 <= NBars THEN <<FALSE, ts + 1>> ELSE <<TRUE, None>>

(***************************************************************************)
(* engine/accounts/fee_calculator.py                                       *)
(***************************************************************************)
trade_fee(mode, notional) == MulDivFloor(notional, FEE_STRUCTURE[mode], 10^4)

\* a borrow fee that charges one hour whatever the time held: the fault C25
\* has to detect
borrow_fee_first_hour(borrow_amount, hours) ==
    MulDivFloor(borrow_amount, BORROW_INTEREST_HOURLY, 10^5) \div 10^5

borrow_fee(borrow_amount, hours) ==
    MulDivFloor(borrow_amount, BORROW_INTEREST_HOURLY * hours, 10^5) \div 10^5

(***************************************************************************)
(* engine/orders/order.py: a TradeOrder object.  `qty` of a constructed    *)
(* order is [kind, val]: an exact quantity or ALL_CASH / ALL_HOLDINGS.     *)
(***************************************************************************)
Exact(q) == [kind |-> "exact", val |-> q]
AllCash == [kind |-> "all_cash", val |-> 0]
AllHoldings == [kind |-> "all_holdings", val |-> 0]

TradeOrder(id, asset, qty, side, mode, leverage) ==
    [id |-> id, asset |-> asset, qty |-> qty, closed |-> FALSE, side |-> side,
     mode |-> mode, leverage |-> leverage,
     entry_price |-> None, exit_price |-> None,
     price_change_percentage_100 |-> None,
     open_ts |-> None, close_ts |-> None,
     open_amount_notional |-> None, open_amount_margin |-> None,
     open_amount_user |-> None,
     closed_amount_notional |-> None, closed_amount |-> None,
     closed_amount_user |-> None,
     unrealized_pnl |-> None, realized_pnl |-> None,
     roi_percentage_100 |-> None, realized_roi_percentage_100 |-> None,
     trade_fee_spot |-> 0, trade_fee_open |-> 0, trade_fee_close |-> 0,
     borrow_fee_margin |-> 0, funding_fee_futures |-> 0,
     liquidation_price |-> None, order_liquidated |-> FALSE]

(***************************************************************************)
(* engine/accounts/accounts.py: the Account base class.                    *)
(***************************************************************************)
Account(cash) ==
    [initial_cash |-> cash, cash |-> cash, portfolio_value |-> cash,
     holdings |-> [a \in AssetSet |-> 0],
     open_orders |-> <<>>, history |-> <<>>]

\* executed price in 1e-4 from a raw price
_apply_slippage(price, side, slippage_rate) ==
    price * (IF side \in {"buy", "long"} THEN 10^4 + slippage_rate
             ELSE 10^4 - slippage_rate)

_get_opposite_side(side) ==
    CASE side = "buy" -> "sell"
      [] side = "sell" -> "buy"
      [] side = "long" -> "short"
      [] side = "short" -> "long"

\* a rounding to the nearest multiple of the step: the fault C33 has to
\* detect
_round_qty_nearest(qty) ==
    IF qty >= 0
    THEN ((qty + (MINIMUM_QTY_STEP \div 2)) \div MINIMUM_QTY_STEP) * MINIMUM_QTY_STEP
    ELSE -(((-qty + (MINIMUM_QTY_STEP \div 2)) \div MINIMUM_QTY_STEP) * MINIMUM_QTY_STEP)

\* truncate toward zero to a multiple of the quantity step
_round_qty(qty) ==
    IF qty >= 0 THEN qty - (qty % MINIMUM_QTY_STEP)
    ELSE -((-qty) - ((-qty) % MINIMUM_QTY_STEP))

\* money value of qty at an executed price (1e-4)
Notional(qty, px) == qty * px * 100

\* list.remove(x): the first occurrence of x is removed
RECURSIVE ListRemove(_, _)
ListRemove(s, x) ==
    IF s = <<>> THEN <<>>
    ELSE IF Head(s) = x THEN Tail(s)
    ELSE <<Head(s)>> \o ListRemove(Tail(s), x)

Occurrences(s, x) == Cardinality({i \in 1..Len(s) : s[i] = x})
Elems(s) == {s[i] : i \in 1..Len(s)}

\* next(o for o in open_orders if o.id == order_id): the first one, or 0
FirstWithId(open_orders, order_id) ==
    IF order_id \in Elems(open_orders) THEN order_id ELSE 0

\* the account and the order after _record_close(order, price, close_ts, liquidated)
_record_close_order(o, price, close_ts, liquidated) ==
    [o EXCEPT !.exit_price = price, !.close_ts = close_ts, !.closed = TRUE,
              !.order_liquidated = IF liquidated THEN TRUE ELSE @]

_record_close_account(acc, id) ==
    [acc EXCEPT !.history = Append(@, id),
                !.open_orders = ListRemove(@, id)]

(***************************************************************************)
(* engine/accounts/liquidation_price.py, margin branch.  Result            *)
(* [ok, price]: ok = FALSE stands for the ValueError raised.               *)
(***************************************************************************)
\* a liquidation price that is computed as for a long whatever the side: the
\* fault C37 has to detect
calculate_liquidation_price_margin_one_sided(position_type, entry_price, margin_balance, qty, leverage) ==
    LET notional_value == Notional(qty, entry_price)
        initial_balance == notional_value \div leverage
    IN  IF margin_balance < initial_balance \/ margin_balance >= notional_value
        THEN [ok |-> FALSE, price |-> None]
        ELSE [ok |-> TRUE,
              price |-> entry_price * 10^4
                        - (MulDivFloor(margin_balance, 100, qty)
                           - MulDivFloor(notional_value - margin_balance,
                                         RATE_MARGIN_BUY, qty))]

calculate_liquidation_price_margin(position_type, entry_price, margin_balance, qty, leverage) ==
    LET notional_value == Notional(qty, entry_price)
        initial_balance == notional_value \div leverage
        entry8 == entry_price * 10^4
        per_qty == MulDivFloor(margin_balance, 100, qty)
    IN  IF position_type \in {"buy", "long"}
        THEN IF margin_balance < initial_balance \/ margin_balance >= notional_value
             THEN [ok |-> FALSE, price |-> None]
             ELSE LET mamr_drop == MulDivFloor(notional_value - margin_balance,
                                               RATE_MARGIN_BUY, qty)
                  IN  [ok |-> TRUE, price |-> entry8 - (per_qty - mamr_drop)]
        ELSE IF position_type \in {"sell", "short"}
        THEN IF margin_balance < initial_balance \/ margin_balance >= notional_value
             THEN [ok |-> FALSE, price |-> None]
             ELSE LET x == MulDivFloor(notional_value + margin_balance, 100, qty)
                      hi == MulDivRem(x, RATE_MARGIN_SELL \div 10^5, 10^5)
                      lo == MulDivFloor(x, RATE_MARGIN_SELL % 10^5, 10^5)
                      mamr_drop == hi[1] + ((hi[2] + lo) \div 10^5)
                  IN  [ok |-> TRUE, price |-> entry8 + (per_qty - mamr_drop)]
        ELSE [ok |-> FALSE, price |-> None]

(***************************************************************************)
(* engine/accounts/margin.py                                               *)
(***************************************************************************)
\* <<closed_amount_user, pnl, fee, borrow, refund_margin>>; px in 1e-4
Margin_calculate_close_final_cash_value(px, o, ts) ==
    LET hours == ts - o.open_ts
        exit_amount_notional == Notional(o.qty.val, px)
        pnl0 == (px - o.entry_price) * o.qty.val * 100
        pnl == IF o.side \in {"short", "sell"} THEN -pnl0 ELSE pnl0
        fee == trade_fee("margin", exit_amount_notional)
        borrow_amount == o.open_amount_notional - o.open_amount_margin
        borrow == borrow_fee(borrow_amount, hours)
        refund_margin == Notional(o.qty.val, o.entry_price) \div o.leverage
    IN  <<pnl + refund_margin - fee - borrow, pnl, fee, borrow, refund_margin>>

\* a maximum that is one quantity step too large: the fault C22 has to detect
Margin_max_open_qty_one_more(acc, px, leverage) ==
    IF px <= 0 THEN 0
    ELSE _round_qty(MulDivTrunc(acc.cash, leverage * 100, px)
                    \div (10^4 + FEE_STRUCTURE["margin"] * leverage))
         + MINIMUM_QTY_STEP

Margin_max_open_qty(acc, px, leverage) ==
    IF px <= 0 THEN 0
    ELSE _round_qty(MulDivTrunc(acc.cash, leverage * 100, px)
                    \div (10^4 + FEE_STRUCTURE["margin"] * leverage))

\* a cash check that forgets the fee: the fault C6 has to detect
Margin_cash_covers_margin_only(acc, margin, fee) == acc.cash >= margin

\* the cash check of MarginAccount.open
Margin_cash_covers(acc, margin, fee) == acc.cash >= margin + fee

\* a leverage check that lets every leverage pass: the fault C20 has to
\* detect
Margin_leverage_exceeds_never(o) == FALSE

\* `if order.leverage > MARGIN_MAX_LEVERAGE:` of MarginAccount.open
Margin_leverage_exceeds(o) == o.leverage > MARGIN_MAX_LEVERAGE

\* MarginAccount.open: [acc, o, status]
Margin_open(acc, o, ts) ==
    LET rejected(st) == [acc |-> acc, o |-> o, status |-> st]
    IN
    IF Margin_leverage_exceeds(o) THEN rejected("rejected_leverage")
    ELSE IF ~HasPrice(o.asset, ts) THEN rejected("ValueError")
    ELSE
    LET px == _apply_slippage(Close(o.asset, ts), o.side, SLIPPAGE["margin"])
        q1 == IF o.qty.kind = "all_cash"
              THEN Margin_max_open_qty(acc, px, o.leverage)
              ELSE o.qty.val
        qty == _round_qty(q1)
        notional == Notional(qty, px)
        margin == notional \div o.leverage
        fee == trade_fee("margin", notional)
        held == IF o.side \in {"buy", "long"}
                THEN [acc EXCEPT !.holdings[o.asset] = @ + qty]
                ELSE IF o.side \in {"sell", "short"}
                THEN [acc EXCEPT !.holdings[o.asset] = @ - qty]
                ELSE acc
        liq == calculate_liquidation_price_margin(o.side, px, margin, qty,
                                                  o.leverage)
    IN  IF o.qty.kind = "all_holdings" THEN rejected("ValueError")
        ELSE IF qty <= 0 THEN rejected("rejected_qty")
        ELSE IF ~Margin_cash_covers(acc, margin, fee) THEN rejected("rejected_cash")
        ELSE IF ~liq.ok
        THEN [acc |-> held, o |-> o, status |-> "rejected_liquidation_price"]
        ELSE [acc |-> [held EXCEPT !.cash = @ - (margin + fee),
                                   !.open_orders = Append(@, o.id)],
              o |-> [o EXCEPT !.qty = Exact(qty),
                              !.entry_price = px,
                              !.trade_fee_open = fee,
                              !.open_ts = ts,
                              !.open_amount_notional = notional,
                              !.open_amount_margin = margin,
                              !.open_amount_user = margin + fee,
                              !.liquidation_price = liq.price],
              status |-> "opened"]

\* a closed test that never fires: the fault C12 has to detect
order_closed_never(o) == FALSE

\* `if order.closed:` of MarginAccount.close
order_closed(o) == o.closed

\* MarginAccount.close: [acc, orders, status]; os is the store of order objects
Margin_close(acc, os, order_id, ts) ==
    LET same(st) == [acc |-> acc, orders |-> os, status |-> st]
        id == FirstWithId(acc.open_orders, order_id)
    IN
    IF id = 0
    THEN IF \E i \in 1..Len(acc.history) :
                acc.history[i] = order_id /\ os[order_id].closed
         THEN same("noop_already_closed")
         ELSE same("noop_not_found")
    ELSE
    LET o == os[id] IN
    IF order_closed(o) THEN same("noop_already_closed")
    ELSE IF o.mode # "margin" THEN same("noop_mode")
    ELSE IF ~HasPrice(o.asset, ts) THEN same("ValueError")
    ELSE
    LET px == _apply_slippage(Close(o.asset, ts), _get_opposite_side(o.side),
                              SLIPPAGE["margin"])
        closed_amount_notional == Notional(o.qty.val, px)
        r == Margin_calculate_close_final_cash_value(px, o, ts)
        closed_amount_user == r[1]
        pnl == r[2]
        fee == r[3]
        borrow == r[4]
        refund_margin == r[5]
        pnl_percentage_100 ==
            IF o.open_amount_margin # 0
            THEN MulDivTrunc(pnl, 100 * 10^4, o.open_amount_margin) ELSE None
        pnl_realized_percentage_100 ==
            IF o.open_amount_user # 0
            THEN MulDivTrunc(closed_amount_user - o.open_amount_user,
                             100 * 10^4, o.open_amount_user)
            ELSE None
        acc1 == [acc EXCEPT
                   !.cash = @ + (pnl + refund_margin - fee - borrow),
                   !.holdings[o.asset] =
                       IF o.side \in {"buy", "long"} THEN @ - o.qty.val
                       ELSE IF o.side \in {"sell", "short"} THEN @ + o.qty.val
                       ELSE @]
        o1 == [o EXCEPT
                 !.price_change_percentage_100 =
                     IF o.entry_price # 0
                     THEN MulDivTrunc(px - o.entry_price, 100 * 10^4,
                                      o.entry_price)
                     ELSE None,
                 !.borrow_fee_margin = borrow,
                 !.trade_fee_close = fee,
                 !.closed_amount_notional = closed_amount_notional,
                 !.closed_amount = pnl + refund_margin,
                 !.closed_amount_user = pnl + refund_margin - fee - borrow,
                 !.unrealized_pnl = pnl,
                 !.realized_pnl =
                     (pnl + refund_margin - fee - borrow) - o.open_amount_user,
                 !.roi_percentage_100 = pnl_percentage_100,
                 !.realized_roi_percentage_100 = pnl_realized_percentage_100]
    IN  [acc |-> _record_close_account(acc1, id),
         orders |-> [os EXCEPT ![id] = _record_close_order(o1, px, ts, FALSE)],
         status |-> "closed"]

\* `for order in self.open_orders: if <filter> and not order.closed:
\*      try: self.close(order.id, ...) except ValueError: print`
\* The loop walks the live list by position i (1-based) while close removes
\* from it.  f is the loop's filter: [by, asset, side] with by one of
\* "all", "asset", "asset_side".
LoopFilter(f, o) ==
    CASE f.by = "all" -> TRUE
      [] f.by = "asset" -> o.asset = f.asset
      [] f.by = "asset_side" -> o.asset = f.asset /\ o.side = f.side

RECURSIVE Margin_close_loop(_, _, _, _, _)
Margin_close_loop(acc, os, i, ts, f) ==
    IF i > Len(acc.open_orders) THEN [acc |-> acc, orders |-> os]
    ELSE LET o == os[acc.open_orders[i]]
         IN  IF LoopFilter(f, o) /\ ~o.closed
             THEN LET r == Margin_close(acc, os, o.id, ts)
                  IN  Margin_close_loop(r.acc, r.orders, i + 1, ts, f)
             ELSE Margin_close_loop(acc, os, i + 1, ts, f)

Margin_close_all_open_orders(acc, os, ts) ==
    Margin_close_loop(acc, os, 1, ts,
                      [by |-> "all", asset |-> "", side |-> ""])

Margin_close_all_open_orders_by_asset(acc, os, asset, ts) ==
    Margin_close_loop(acc, os, 1, ts,
                      [by |-> "asset", asset |-> asset, side |-> ""])

Margin_close_all_open_orders_by_asset_and_side(acc, os, asset, side, ts) ==
    Margin_close_loop(acc, os, 1, ts,
                      [by |-> "asset_side", asset |-> asset, side |-> side])

\* MarginAccount.update_portfolio_value: [ok, value]; ok = FALSE is the
\* KeyError of current_prices[order.asset].  current_prices is the set of
\* assets the engine fetched a price for.
RECURSIVE Margin_unrealized_cash(_, _, _, _)
Margin_unrealized_cash(open_orders, os, i, ts) ==
    IF i > Len(open_orders) THEN 0
    ELSE LET o == os[open_orders[i]]
         IN  Margin_calculate_close_final_cash_value(
                 Close(o.asset, ts) * 10^4, o, ts)[1]
             + Margin_unrealized_cash(open_orders, os, i + 1, ts)

Margin_update_portfolio_value(acc, os, current_prices, ts) ==
    IF \E i \in 1..Len(acc.open_orders) :
           os[acc.open_orders[i]].asset \notin current_prices
    THEN [ok |-> FALSE, acc |-> acc]
    ELSE [ok |-> TRUE,
          acc |-> [acc EXCEPT !.portfolio_value =
                      acc.cash + Margin_unrealized_cash(acc.open_orders, os, 1, ts)]]

\* Account._liquidate_order(order, price, close_ts): [acc, orders]; price raw
_liquidate_order(acc, os, id, price, close_ts) ==
    LET o == os[id] IN
    IF o.closed \/ o.mode \notin {"margin", "futures"}
    THEN [acc |-> acc, orders |-> os]
    ELSE
    LET o1 == [o EXCEPT
                 !.price_change_percentage_100 =
                     IF o.entry_price # 0
                     THEN MulDivTrunc(price * 10^4 - o.entry_price, 100 * 10^4,
                                      o.entry_price)
                     ELSE None,
                 !.unrealized_pnl = o.open_amount_margin,
                 !.realized_pnl = o.open_amount_margin,
                 !.roi_percentage_100 = -100 * 10^4,
                 !.realized_roi_percentage_100 = -100 * 10^4]
        acc1 == [acc EXCEPT !.holdings[o.asset] =
                     IF o.side \in {"buy", "long"} THEN @ - o.qty.val
                     ELSE IF o.side \in {"sell", "short"} THEN @ + o.qty.val
                     ELSE @]
    IN  [acc |-> _record_close_account(acc1, id),
         orders |-> [os EXCEPT ![id] =
                        _record_close_order(o1, price * 10^4, close_ts, TRUE)]]

(***************************************************************************)
(* engine/accounts/spot.py                                                 *)
(***************************************************************************)
\* a fill that charges no fee: the fault C24 has to detect
Spot_calculate_close_final_cash_value_no_fee(px, qty) ==
    <<Notional(qty, px), Notional(qty, px), 0>>

\* <<cost + fee, cost, fee>>
Spot_calculate_close_final_cash_value(px, qty) ==
    LET cost == Notional(qty, px)
        fee == trade_fee("spot", cost)
    IN  <<cost + fee, cost, fee>>

\* the quantity, or None for the sell side
Spot_max_open_qty(acc, px, side) ==
    IF px <= 0 THEN 0
    ELSE IF side \in {"buy", "long"}
    THEN _round_qty(MulDivTrunc(acc.cash, 100, px)
                    \div (10^4 + FEE_STRUCTURE["spot"]))
    ELSE None

Spot_max_sell_qty(acc, asset) ==
    IF acc.holdings[asset] > 0 THEN acc.holdings[asset] ELSE 0

\* SpotAccount.open: [acc, o, status]
Spot_open(acc, o, ts) ==
    LET rejected(st) == [acc |-> acc, o |-> o, status |-> st] IN
    IF ~HasPrice(o.asset, ts) THEN rejected("ValueError")
    ELSE
    LET px == _apply_slippage(Close(o.asset, ts), o.side, SLIPPAGE["spot"])
        q1 == CASE o.qty.kind = "all_cash" -> Spot_max_open_qty(acc, px, o.side)
                [] o.qty.kind = "all_holdings" -> Spot_max_sell_qty(acc, o.asset)
                [] OTHER -> o.qty.val
        qty == _round_qty(q1)
        r == Spot_calculate_close_final_cash_value(px, qty)
        cost == r[2]
        fee == r[3]
        filled(acc1, open_amount_user) ==
            [acc |-> [acc1 EXCEPT !.history = Append(@, o.id)],
             o |-> [o EXCEPT !.qty = Exact(qty),
                             !.open_amount_user = open_amount_user,
                             !.open_amount_notional = cost,
                             !.entry_price = px,
                             !.trade_fee_spot = fee,
                             !.open_ts = ts,
                             !.closed = TRUE],
             status |-> "filled"]
    IN  IF o.qty.kind = "all_cash" /\ q1 = None THEN rejected("TypeError")
        ELSE IF o.qty.kind \in {"all_cash", "all_holdings"} /\ q1 <= 0
        THEN rejected("rejected_qty")
        ELSE IF o.mode # "spot" THEN rejected("rejected_mode")
        ELSE IF o.closed THEN rejected("rejected_closed")
        ELSE IF q1 <= 0 \/ qty <= 0 THEN rejected("rejected_qty")
        ELSE IF o.side \in {"buy", "long"}
        THEN IF ~(acc.cash >= cost + fee) THEN rejected("rejected_cash")
             ELSE filled([acc EXCEPT !.cash = @ - (cost + fee),
                                     !.holdings[o.asset] = @ + qty],
                         cost + fee)
        ELSE IF ~(acc.holdings[o.asset] >= qty) THEN rejected("rejected_holdings")
             ELSE filled([acc EXCEPT !.holdings[o.asset] = @ - qty,
                                     !.cash = @ + (cost - fee)],
                         cost - fee)

\* SpotAccount.update_portfolio_value; a price the engine did not fetch is 0
RECURSIVE Spot_holdings_value(_, _, _, _)
Spot_holdings_value(acc, current_prices, todo, ts) ==
    IF todo = {} THEN 0
    ELSE LET asset == CHOOSE a \in todo : TRUE
             price == IF asset \in current_prices THEN Close(asset, ts) ELSE 0
             value == Notional(acc.holdings[asset], price * 10^4)
         IN  value - trade_fee("spot", value)
             + Spot_holdings_value(acc, current_prices, todo \ {asset}, ts)

\* a valuation that counts the cash only: the fault C19 has to detect
Spot_update_portfolio_value_cash_only(acc, current_prices, ts) ==
    [acc EXCEPT !.portfolio_value = acc.cash]

Spot_update_portfolio_value(acc, current_prices, ts) ==
    [acc EXCEPT !.portfolio_value =
         acc.cash + Spot_holdings_value(acc, current_prices, AssetSet, ts)]

(***************************************************************************)
(* engine/users/user.py                                                    *)
(***************************************************************************)
User(user_id, spot_account, margin_account, spot_initial_cash, margin_initial_cash) ==
    LET modes == (IF spot_account THEN {"spot"} ELSE {})
                 \cup (IF margin_account THEN {"margin"} ELSE {})
        accounts == [m \in modes |->
                        IF m = "spot" THEN Account(spot_initial_cash)
                        ELSE Account(margin_initial_cash)]
    IN  [user_id |-> user_id,
         accounts |-> accounts,
         portfolio_value |-> [m \in modes |-> accounts[m].portfolio_value]]

\* the account modes of a user in dict order
get_all_accounts_names(user) ==
    SelectSeq(ACCOUNT_MODES, LAMBDA m : m \in DOMAIN user.accounts)

User_update_portfolio_value(user) ==
    [user EXCEPT !.portfolio_value =
         [m \in DOMAIN user.accounts |-> user.accounts[m].portfolio_value]]

(***************************************************************************)
(* engine/trading_engine.py                                                *)
(*   users   the registry, a dict in insertion order: a sequence of users  *)
(*   orders  the TradeOrder objects, by id; accounts hold ids (references) *)
(*   last    the last call and how it ended: a status of the account       *)
(*           operation, or the exception it raised                         *)
(***************************************************************************)
UserIndex(us, user_id) ==
    IF \E i \in 1..Len(us) : us[i].user_id = user_id
    THEN CHOOSE i \in 1..Len(us) : us[i].user_id = user_id
    ELSE 0

HasAccount(us, user_id, mode) ==
    /\ UserIndex(us, user_id) # 0
    /\ mode \in DOMAIN us[UserIndex(us, user_id)].accounts

get_account(us, user_id, mode) == us[UserIndex(us, user_id)].accounts[mode]

set_account(us, user_id, mode, acc) ==
    [us EXCEPT ![UserIndex(us, user_id)].accounts[mode] = acc]

\* entry checks without the comparison of ts with the clock: the fault C10
\* has to detect
EntryError_without_clock(us, now, user_id, mode, ts) ==
    IF UserIndex(us, user_id) = 0 THEN "ValueError_user"
    ELSE IF ~HasAccount(us, user_id, mode) THEN "ValueError_account"
    ELSE ""

\* the checks every user action starts with: "" when they pass
EntryError(us, now, user_id, mode, ts) ==
    IF UserIndex(us, user_id) = 0 THEN "ValueError_user"
    ELSE IF now # ts THEN "ValueError_timestamp"
    ELSE IF ~HasAccount(us, user_id, mode) THEN "ValueError_account"
    ELSE ""

\* check_liquidations, the loop over one account's live open_orders
RECURSIVE Liquidation_loop(_, _, _, _, _)
Liquidation_loop(acc, os, i, mode, now) ==
    IF i > Len(acc.open_orders) THEN [acc |-> acc, orders |-> os]
    ELSE LET o == os[acc.open_orders[i]]
             hit == /\ o.mode = mode
                    /\ ~o.closed
                    /\ HasPrice(o.asset, now)
                    /\ \/ /\ o.side \in LONG_POSITIONS
                          /\ Close(o.asset, now) * 10^8 <= o.liquidation_price
                       \/ /\ o.side \in SHORT_POSITIONS
                          /\ Close(o.asset, now) * 10^8 >= o.liquidation_price
         IN  IF hit
             THEN LET r == _liquidate_order(acc, os, o.id, Close(o.asset, now), now)
                  IN  Liquidation_loop(r.acc, r.orders, i + 1, mode, now)
             ELSE Liquidation_loop(acc, os, i + 1, mode, now)

\* ... over the accounts modes[j..] of one user
RECURSIVE Liquidation_modes(_, _, _, _, _)
Liquidation_modes(user, os, modes, j, now) ==
    IF j > Len(modes) THEN [user |-> user, orders |-> os]
    ELSE LET r == Liquidation_loop(user.accounts[modes[j]], os, 1, modes[j], now)
         IN  Liquidation_modes([user EXCEPT !.accounts[modes[j]] = r.acc],
                               r.orders, modes, j + 1, now)

\* ... over the users us[k..]
RECURSIVE check_liquidations(_, _, _, _)
check_liquidations(us, os, k, now) ==
    IF k > Len(us) THEN [users |-> us, orders |-> os]
    ELSE LET r == Liquidation_modes(us[k], os, get_all_accounts_names(us[k]),
                                    1, now)
         IN  check_liquidations([us EXCEPT ![k] = r.user], r.orders, k + 1, now)

\* update_portfolio_values: [ok, err, users]; ok = FALSE is the exception err
\* that ends the call where it is raised: the ValueError of get_price for a
\* held asset without a bar at `now`, or the KeyError of the margin account
RECURSIVE Portfolio_modes(_, _, _, _, _)
Portfolio_modes(user, os, modes, j, now) ==
    IF j > Len(modes)
    THEN [ok |-> TRUE, err |-> "", user |-> User_update_portfolio_value(user)]
    ELSE LET acc == user.accounts[modes[j]]
             current_prices == {a \in AssetSet : acc.holdings[a] # 0}
         IN  IF \E a \in current_prices : ~HasPrice(a, now)
             THEN [ok |-> FALSE, err |-> "ValueError", user |-> user]
             ELSE IF modes[j] = "spot"
             THEN Portfolio_modes(
                      [user EXCEPT !.accounts[modes[j]] =
                           Spot_update_portfolio_value(acc, current_prices, now)],
                      os, modes, j + 1, now)
             ELSE LET r == Margin_update_portfolio_value(acc, os, current_prices, now)
                  IN  IF r.ok
                      THEN Portfolio_modes(
                               [user EXCEPT !.accounts[modes[j]] = r.acc],
                               os, modes, j + 1, now)
                      ELSE [ok |-> FALSE, err |-> "KeyError", user |-> user]

RECURSIVE update_portfolio_values(_, _, _, _)
update_portfolio_values(us, os, k, now) ==
    IF k > Len(us) THEN [ok |-> TRUE, err |-> "", users |-> us]
    ELSE LET r == Portfolio_modes(us[k], os, get_all_accounts_names(us[k]), 1, now)
         IN  IF r.ok
             THEN update_portfolio_values([us EXCEPT ![k] = r.user], os, k + 1, now)
             ELSE [ok |-> FALSE, err |-> r.err,
                   users |-> [us EXCEPT ![k] = r.user]]

(***************************************************************************)
(* Inputs of the calls.                                                    *)
(***************************************************************************)
UserIds == {"u1"}
Modes == {"spot", "margin"}
Sides == {"long", "short"}

\* register_user(user_id, spot_account, margin_account, spot_initial_cash,
\* margin_initial_cash): a funded user, and one registered without cash
RegisterInputs ==
    {<<"u1", TRUE, TRUE, SpotInitCash, MarginInitCash>>, <<"u1", TRUE, TRUE, 0, 0>>}

\* TradeOrder(asset, qty, side, mode, leverage) as the callers construct them
OrderInputs ==
    { [asset |-> "A", qty |-> Exact(10), side |-> "long", mode |-> "margin", leverage |-> 10],
      [asset |-> "A", qty |-> AllCash, side |-> "short", mode |-> "margin", leverage |-> 10],
      [asset |-> "B", qty |-> Exact(10), side |-> "short", mode |-> "margin", leverage |-> 10],
      [asset |-> "A", qty |-> Exact(30), side |-> "long", mode |-> "margin", leverage |-> 10],
      [asset |-> "B", qty |-> Exact(10), side |-> "long", mode |-> "margin", leverage |-> 1],
      [asset |-> "A", qty |-> Exact(10), side |-> "long", mode |-> "margin", leverage |-> 11],
      [asset |-> "A", qty |-> Exact(5), side |-> "long", mode |-> "margin", leverage |-> 10],
      [asset |-> "B", qty |-> Exact(10), side |-> "buy", mode |-> "spot", leverage |-> 1],
      [asset |-> "B", qty |-> AllHoldings, side |-> "sell", mode |-> "spot", leverage |-> 1],
      [asset |-> "B", qty |-> Exact(10), side |-> "sell", mode |-> "spot", leverage |-> 1],
      [asset |-> "B", qty |-> AllCash, side |-> "sell", mode |-> "spot", leverage |-> 1],
      [asset |-> "B", qty |-> AllCash, side |-> "buy", mode |-> "spot", leverage |-> 1] }

\* (user_id, mode) of the calls that name an account
AccountInputs == {<<"u1", "margin">>, <<"u1", "spot">>}

(***************************************************************************)
(* The engine's calls.                                                     *)
(***************************************************************************)
Called(op, status) == [op |-> op, status |-> status]

\* TradingEngine.__init__
Init ==
    /\ users = <<>>
    /\ orders = <<>>
    /\ current_ts = get_first_timestamp(assets[1])
    /\ last = Called("init", "ok")

\* register_user(user_id, spot_account, margin_account, ...); the driver
\* (main_engine.py) registers the users before the first call of the run
register_user(user_id, spot_account, margin_account, spot_initial_cash, margin_initial_cash) ==
    LET user == User(user_id, spot_account, margin_account, spot_initial_cash,
                     margin_initial_cash)
        k == UserIndex(users, user_id)
    IN  /\ last.op \in {"init", "register_user"}
        /\ users' = IF k = 0 THEN Append(users, user)
                    ELSE [users EXCEPT ![k] = user]
        /\ last' = Called("register_user", "ok")
        /\ UNCHANGED <<orders, current_ts>>

Account_open(acc, o, ts) ==
    IF o.mode = "spot" THEN Spot_open(acc, o, ts) ELSE Margin_open(acc, o, ts)

\* place_order(user_id, order, ts) with the order object `o`:
\* [users, o, status]
place_order(user_id, o, ts) ==
    LET err == EntryError(users, current_ts, user_id, o.mode, ts) IN
    IF err # "" THEN [users |-> users, o |-> o, status |-> err]
    ELSE LET r == Account_open(get_account(users, user_id, o.mode), o, ts)
         IN  [users |-> set_account(users, user_id, o.mode, r.acc),
              o |-> r.o, status |-> r.status]

\* the entries of all open_orders and history lists: one for every order an
\* account took in
RECURSIVE Placements(_, _)
Placements(us, k) ==
    IF k > Len(us) THEN 0
    ELSE LET n == [m \in DOMAIN us[k].accounts |->
                      Len(us[k].accounts[m].open_orders)
                      + Len(us[k].accounts[m].history)]
         IN  (IF "spot" \in DOMAIN n THEN n["spot"] ELSE 0)
             + (IF "margin" \in DOMAIN n THEN n["margin"] ELSE 0)
             + Placements(us, k + 1)

\* place_order with a newly constructed order; the object is kept when the
\* call left a trace in an account, otherwise the caller drops it
PlaceOrderUpTo(cap, user_id, inp, ts) ==
    /\ Len(orders) < cap
    /\ Placements(users, 1) < cap
    /\ LET o == TradeOrder(Len(orders) + 1, inp.asset, inp.qty, inp.side,
                           inp.mode, inp.leverage)
           r == place_order(user_id, o, ts)
       IN  /\ users' = r.users
           /\ orders' = IF r.users # users THEN Append(orders, r.o) ELSE orders
           /\ last' = Called("place_order", r.status)
    /\ UNCHANGED current_ts

PlaceOrder(user_id, inp, ts) == PlaceOrderUpTo(MaxOrders, user_id, inp, ts)

\* place_order with an order object that an account holds (open or closed)
PlaceOrderAgain(user_id, id, ts) ==
    /\ id \in 1..Len(orders)
    /\ orders[id].open_ts # None
    /\ Placements(users, 1) < MaxOrders
    /\ LET r == place_order(user_id, orders[id], ts)
       IN  /\ users' = r.users
           /\ orders' = [orders EXCEPT ![id] = r.o]
           /\ last' = Called("place_order", r.status)
    /\ UNCHANGED current_ts

\* close_order(user_id, mode, order_id, ts)
CloseOrder(user_id, mode, order_id, ts) ==
    LET err == EntryError(users, current_ts, user_id, mode, ts) IN
    /\ IF err # ""
       THEN /\ last' = Called("close_order", err)
            /\ UNCHANGED <<users, orders>>
       ELSE IF mode = "spot"
       THEN /\ last' = Called("close_order", "AttributeError")
            /\ UNCHANGED <<users, orders>>
       ELSE LET r == Margin_close(get_account(users, user_id, mode), orders,
                                  order_id, ts)
            IN  /\ users' = set_account(users, user_id, mode, r.acc)
                /\ orders' = r.orders
                /\ last' = Called("close_order", r.status)
    /\ UNCHANGED current_ts

\* the three bulk closes; f is the filter of the account's loop
BulkClose(op, user_id, mode, f, ts) ==
    LET err == EntryError(users, current_ts, user_id, mode, ts) IN
    /\ IF err # ""
       THEN /\ last' = Called(op, err)
            /\ UNCHANGED <<users, orders>>
       ELSE IF mode = "spot"
       THEN /\ last' = Called(op, IF f.by = "asset_side" THEN "AttributeError"
                                  ELSE "ok")
            /\ UNCHANGED <<users, orders>>
       ELSE LET r == Margin_close_loop(get_account(users, user_id, mode),
                                       orders, 1, ts, f)
            IN  /\ users' = set_account(users, user_id, mode, r.acc)
                /\ orders' = r.orders
                /\ last' = Called(op, "ok")
    /\ UNCHANGED current_ts

close_all_orders(user_id, mode, ts) ==
    BulkClose("close_all_orders", user_id, mode,
              [by |-> "all", asset |-> "", side |-> ""], ts)

close_all_orders_by_mode_asset(user_id, mode, asset, ts) ==
    BulkClose("close_all_orders_by_mode_asset", user_id, mode,
              [by |-> "asset", asset |-> asset, side |-> ""], ts)

close_all_orders_by_mode_asset_side(user_id, mode, asset, side, ts) ==
    BulkClose("close_all_orders_by_mode_asset_side", user_id, mode,
              [by |-> "asset_side", asset |-> asset, side |-> side], ts)

\* step_simulation()
step_simulation ==
    LET r == check_liquidations(users, orders, 1, current_ts)
    IN  /\ users' = r.users
        /\ orders' = r.orders
        /\ last' = Called("step_simulation", "ok")
        /\ UNCHANGED current_ts

\* an update_current_timestamp that moves the clock before it values the
\* portfolios: the fault C17 has to detect
update_current_timestamp_clock_first ==
    LET nxt == get_next_timestamp(assets[1], current_ts)
        now == IF nxt[1] THEN current_ts ELSE nxt[2]
        r == update_portfolio_values(users, orders, 1, now)
    IN  /\ users' = r.users
        /\ UNCHANGED orders
        /\ IF ~r.ok
           THEN /\ last' = Called("update_current_timestamp", r.err)
                /\ UNCHANGED current_ts
           ELSE /\ current_ts' = now
                /\ last' = Called("update_current_timestamp",
                                  IF nxt[1] THEN "True" ELSE "False")

\* update_current_timestamp(): returns done
update_current_timestamp ==
    LET r == update_portfolio_values(users, orders, 1, current_ts)
        nxt == get_next_timestamp(assets[1], current_ts)
    IN  /\ users' = r.users
        /\ UNCHANGED orders
        /\ IF ~r.ok
           THEN /\ last' = Called("update_current_timestamp", r.err)
                /\ UNCHANGED current_ts
           ELSE /\ current_ts' = IF nxt[1] THEN current_ts ELSE nxt[2]
                /\ last' = Called("update_current_timestamp",
                                  IF nxt[1] THEN "True" ELSE "False")

\* the ts argument of a call: the engine's clock, or the bar after it
TsInputs == {current_ts, current_ts + 1}

Next ==
    \/ \E inp \in RegisterInputs : register_user(inp[1], inp[2], inp[3], inp[4], inp[5])
    \/ \E u \in UserIds, inp \in OrderInputs, ts \in TsInputs :
           PlaceOrder(u, inp, ts)
    \/ \E u \in UserIds, id \in 1..MaxOrders, ts \in TsInputs :
           PlaceOrderAgain(u, id, ts)
    \/ \E um \in AccountInputs, id \in 1..MaxOrders, ts \in TsInputs :
           CloseOrder(um[1], um[2], id, ts)
    \/ \E um \in AccountInputs, ts \in TsInputs :
           close_all_orders(um[1], um[2], ts)
    \/ \E um \in AccountInputs, a \in AssetSet, ts \in TsInputs :
           close_all_orders_by_mode_asset(um[1], um[2], a, ts)
    \/ \E um \in AccountInputs, a \in AssetSet, sd \in Sides, ts \in TsInputs :
           close_all_orders_by_mode_asset_side(um[1], um[2], a, sd, ts)
    \/ step_simulation
    \/ update_current_timestamp

Spec == Init /\ [][Next]_vars

(***************************************************************************)
(* The driver (main_engine.py run_simulation with                          *)
(* utils/order_pipeline.py): in every bar the sweep, then the calls of the *)
(* pipeline with ts = the clock, then update_current_timestamp, until it   *)
(* returns True.  The driver keeps no state of its own between the calls:  *)
(* where it stands in the loop is told by the last call.                   *)
(***************************************************************************)
\* the calls place_all_orders_in_pipeline makes
PipelineOps == {"place_order", "close_order", "close_all_orders"}

\* the exceptions the pipeline does not catch: they end the run
Uncaught == {"AttributeError", "TypeError", "KeyError"}

\* at `while not done:` with done = False
run_at_loop_head ==
    \/ last.op = "register_user"
    \/ last.op = "update_current_timestamp" /\ last.status = "False"

\* between step_simulation and update_current_timestamp of one pass
run_in_bar ==
    /\ last.op \in {"step_simulation"} \cup PipelineOps
    /\ last.status \notin Uncaught

RunRegister == \E inp \in RegisterInputs : register_user(inp[1], inp[2], inp[3], inp[4], inp[5])

RunSweep == run_at_loop_head /\ step_simulation

RunOpen ==
    /\ run_in_bar
    /\ \E u \in UserIds, inp \in OrderInputs : PlaceOrder(u, inp, current_ts)

RunOpenAgain ==
    /\ run_in_bar
    /\ \E u \in UserIds, id \in 1..MaxOrders : PlaceOrderAgain(u, id, current_ts)

RunClose ==
    /\ run_in_bar
    /\ \E um \in AccountInputs, id \in 1..MaxOrders :
           CloseOrder(um[1], um[2], id, current_ts)

RunCloseAll ==
    /\ run_in_bar
    /\ \E um \in AccountInputs : close_all_orders(um[1], um[2], current_ts)

RunAdvance == run_in_bar /\ update_current_timestamp

NextRun ==
    \/ RunRegister
    \/ RunSweep
    \/ RunOpen
    \/ RunOpenAgain
    \/ RunClose
    \/ RunCloseAll
    \/ RunAdvance

SpecRun == Init /\ [][NextRun]_vars

(***************************************************************************)
(* Properties of the engine.                                               *)
(***************************************************************************)
\* the accounts of all users
AccountsOf(us) ==
    UNION {{us[k].accounts[m] : m \in DOMAIN us[k].accounts} : k \in 1..Len(us)}

\* the entries of order `id` in the open_orders and history lists of all users
RECURSIVE TotalOccurrences(_, _, _)
TotalOccurrences(us, k, id) ==
    IF k > Len(us) THEN 0
    ELSE LET n == [m \in DOMAIN us[k].accounts |->
                      Occurrences(us[k].accounts[m].open_orders, id)
                      + Occurrences(us[k].accounts[m].history, id)]
         IN  (IF "spot" \in DOMAIN n THEN n["spot"] ELSE 0)
             + (IF "margin" \in DOMAIN n THEN n["margin"] ELSE 0)
             + TotalOccurrences(us, k + 1, id)

\* the order meets the liquidation condition at the price of bar `now`
MeetsLiquidation(o, now) ==
    /\ ~o.closed
    /\ o.liquidation_price # None
    /\ HasPrice(o.asset, now)
    /\ \/ o.side \in LONG_POSITIONS /\ Close(o.asset, now) * 10^8 <= o.liquidation_price
       \/ o.side \in SHORT_POSITIONS /\ Close(o.asset, now) * 10^8 >= o.liquidation_price

\* every entry of the account's open_orders is another order, and none of
\* them is closed
OpenOrdersDistinct(acc) ==
    \A i \in 1..Len(acc.open_orders) :
        /\ Occurrences(acc.open_orders, acc.open_orders[i]) = 1
        /\ ~orders[acc.open_orders[i]].closed

\* C1: in every reachable state the cash of every spot and margin account is
\* at least 0, also right after a margin position is closed at a loss.
C1_CashNeverNegative == \A acc \in AccountsOf(users) : acc.cash >= 0

\* C2: every order an account took in through place_order, whether it was
\* fresh, open or already closed when it was passed, has exactly one entry in
\* the open_orders and history lists together: once in open_orders or once
\* in history, never in both and never twice.
C2_OrderListedExactlyOnce ==
    \A id \in 1..Len(orders) :
        orders[id].open_ts # None => TotalOccurrences(users, 1, id) = 1

\* C3: right after step_simulation no margin account holds an open order
\* that meets the liquidation condition at the price of the current bar,
\* however many of its orders met the condition in the sweep.
C3_SweepLeavesNoneLiquidatable ==
    last.op = "step_simulation" =>
        \A k \in 1..Len(users) :
            "margin" \in DOMAIN users[k].accounts =>
                \A i \in 1..Len(users[k].accounts["margin"].open_orders) :
                    ~MeetsLiquidation(
                         orders[users[k].accounts["margin"].open_orders[i]],
                         current_ts)

\* C4: a liquidated order ends with realized_pnl = -open_amount_margin and
\* realized_roi_percentage_100 = -100.
C4_LiquidationBooksLostMargin ==
    \A id \in 1..Len(orders) :
        orders[id].order_liquidated =>
            /\ orders[id].realized_pnl = -orders[id].open_amount_margin
            /\ orders[id].realized_roi_percentage_100 = -100 * 10^4

\* the orders the step liquidates
LiquidatedNow(id) ==
    /\ id \in 1..Len(orders)
    /\ ~orders[id].order_liquidated
    /\ orders'[id].order_liquidated

\* what the liquidation of the long and short orders ids[i..] of an account
\* takes back from its holdings of `asset`
RECURSIVE ReversedHoldings(_, _, _)
ReversedHoldings(ids, i, asset) ==
    IF i > Len(ids) THEN 0
    ELSE (IF orders[ids[i]].asset # asset THEN 0
          ELSE IF orders[ids[i]].side \in LONG_POSITIONS THEN -orders[ids[i]].qty.val
          ELSE orders[ids[i]].qty.val)
         + ReversedHoldings(ids, i + 1, asset)

\* the effect of the sweep on one account, acc before and acc2 after it
LiquidationFrame(acc, acc2) ==
    LET gone == SelectSeq(acc.open_orders, LAMBDA id : LiquidatedNow(id))
    IN  /\ acc2.cash = acc.cash
        /\ \A a \in AssetSet :
               acc2.holdings[a] = acc.holdings[a] + ReversedHoldings(gone, 1, a)
        /\ \A i \in 1..Len(gone) :
               /\ orders'[gone[i]].closed
               /\ orders'[gone[i]].exit_price
                      = Close(orders[gone[i]].asset, current_ts) * 10^4
               /\ orders'[gone[i]].close_ts = current_ts
               /\ gone[i] \notin Elems(acc2.open_orders)
        /\ acc2.open_orders
               = SelectSeq(acc.open_orders, LAMBDA id : ~LiquidatedNow(id))
        /\ acc2.history = acc.history \o gone
        /\ acc2.initial_cash = acc.initial_cash
        /\ acc2.portfolio_value = acc.portfolio_value

\* C5: a liquidation leaves the cash of the account unchanged, takes the
\* position's quantity back from the holdings (long: -qty, short: +qty), sets
\* closed and order_liquidated, records exit_price = the unslipped price of
\* the bar and close_ts = current_ts and moves the order from open_orders to
\* history; orders that are not liquidated and the other accounts stay as
\* they are.
C5_LiquidationFrame ==
    [][last'.op = "step_simulation" =>
          /\ Len(users') = Len(users)
          /\ Len(orders') = Len(orders)
          /\ \A id \in 1..Len(orders) :
                 ~LiquidatedNow(id) => orders'[id] = orders[id]
          /\ \A k \in 1..Len(users) :
                 /\ DOMAIN users'[k].accounts = DOMAIN users[k].accounts
                 /\ \A m \in DOMAIN users[k].accounts :
                        LiquidationFrame(users[k].accounts[m],
                                         users'[k].accounts[m])]_vars

\* what a place_order of the input needs and the account does not have:
\* cash < cost + fee (spot buy), cash < margin + fee (margin open),
\* holdings < qty (spot sell)
Insufficient(acc, inp, ts) ==
    /\ inp.qty.kind = "exact"
    /\ _round_qty(inp.qty.val) > 0
    /\ HasPrice(inp.asset, ts)
    /\ LET qty == _round_qty(inp.qty.val)
           px == _apply_slippage(Close(inp.asset, ts), inp.side,
                                 SLIPPAGE[inp.mode])
           notional == Notional(qty, px)
       IN  IF inp.mode = "margin"
           THEN acc.cash < (notional \div inp.leverage)
                               + trade_fee("margin", notional)
           ELSE IF inp.side \in {"buy", "long"}
           THEN acc.cash < notional + trade_fee("spot", notional)
           ELSE acc.holdings[inp.asset] < qty

\* C6: a place_order for which the account has too little cash (spot buy,
\* margin open) or too little of the asset (spot sell) leaves cash, holdings,
\* open_orders and history of the accounts, and the orders, as they were.
C6_RejectedOrderLeavesAccount ==
    [][\A u \in UserIds, inp \in OrderInputs :
          (/\ HasAccount(users, u, inp.mode)
           /\ Insufficient(get_account(users, u, inp.mode), inp, current_ts)
           /\ PlaceOrder(u, inp, current_ts))
          => UNCHANGED <<users, orders>>]_vars

\* C6 happens: a place_order was rejected for cash after the account had
\* taken an order in.
C6_Witness ==
    /\ last = Called("place_order", "rejected_cash")
    /\ Placements(users, 1) > 0

\* C7: a margin open whose liquidation price cannot be computed (the posted
\* margin is at least the notional, as with leverage 1) is rejected: the
\* order is not added to open_orders and cash, holdings and history of the
\* account are as before the call.
C7_NoLiquidationPriceLeavesAccount ==
    [][(last'.op = "place_order"
        /\ last'.status = "rejected_liquidation_price") => users' = users]_vars

\* C8: close_all_orders on a margin account at the current bar leaves its
\* open_orders empty and every order that was open in history and closed,
\* whether the account held 0, 1, 2 or more open orders.
C8_CloseAllEmptiesAccount ==
    [][\A u \in UserIds :
          (/\ HasAccount(users, u, "margin")
           /\ OpenOrdersDistinct(get_account(users, u, "margin"))
           /\ close_all_orders(u, "margin", current_ts))
          => /\ get_account(users', u, "margin").open_orders = <<>>
             /\ \A id \in Elems(get_account(users, u, "margin").open_orders) :
                    /\ id \in Elems(get_account(users', u, "margin").history)
                    /\ orders'[id].closed]_vars

\* the open orders of the account that a bulk close with filter f leaves alone
KeptOpen(acc, f) ==
    SelectSeq(acc.open_orders, LAMBDA id : ~LoopFilter(f, orders[id]))

\* after a bulk close with filter f: nothing that matches is left in
\* open_orders, and what does not match is still there, unchanged
FilteredCloseFrame(acc, acc2, f) ==
    /\ \A i \in 1..Len(acc2.open_orders) :
           ~LoopFilter(f, orders'[acc2.open_orders[i]])
    /\ KeptOpen(acc, f) = SelectSeq(acc2.open_orders,
                                    LAMBDA id : ~LoopFilter(f, orders[id]))
    /\ \A i \in 1..Len(KeptOpen(acc, f)) :
           orders'[KeptOpen(acc, f)[i]] = orders[KeptOpen(acc, f)[i]]

\* C9: after close_all_orders_by_mode_asset no open order of the asset is
\* left in the margin account, after close_all_orders_by_mode_asset_side no
\* open order of the asset and side; the open orders that do not match are
\* still open and unchanged.
C9_FilteredCloseLeavesNoMatch ==
    [][\A u \in UserIds, a \in AssetSet :
          /\ (/\ HasAccount(users, u, "margin")
              /\ OpenOrdersDistinct(get_account(users, u, "margin"))
              /\ close_all_orders_by_mode_asset(u, "margin", a, current_ts))
             => FilteredCloseFrame(get_account(users, u, "margin"),
                                   get_account(users', u, "margin"),
                                   [by |-> "asset", asset |-> a, side |-> ""])
          /\ \A sd \in Sides :
                (/\ HasAccount(users, u, "margin")
                 /\ OpenOrdersDistinct(get_account(users, u, "margin"))
                 /\ close_all_orders_by_mode_asset_side(u, "margin", a, sd,
                                                        current_ts))
                => FilteredCloseFrame(get_account(users, u, "margin"),
                                      get_account(users', u, "margin"),
                                      [by |-> "asset_side", asset |-> a,
                                       side |-> sd])]_vars

\* the call failed with the timestamp error and changed nothing
TimestampMismatch ==
    /\ last'.status = "ValueError_timestamp"
    /\ UNCHANGED <<users, orders, current_ts>>

\* C10: place_order, close_order, close_all_orders,
\* close_all_orders_by_mode_asset and close_all_orders_by_mode_asset_side of
\* a registered user with a ts that is not current_ts fail with the
\* timestamp error and change no account, no order and not the clock.
C10_WrongTimestampChangesNothing ==
    [][\A u \in UserIds, ts \in TsInputs \ {current_ts} :
          UserIndex(users, u) # 0 =>
          /\ \A inp \in OrderInputs : PlaceOrder(u, inp, ts) => TimestampMismatch
          /\ \A id \in 1..MaxOrders :
                 PlaceOrderAgain(u, id, ts) => TimestampMismatch
          /\ \A m \in Modes :
                 /\ \A id \in 1..MaxOrders :
                        CloseOrder(u, m, id, ts) => TimestampMismatch
                 /\ close_all_orders(u, m, ts) => TimestampMismatch
                 /\ \A a \in AssetSet :
                        /\ close_all_orders_by_mode_asset(u, m, a, ts)
                               => TimestampMismatch
                        /\ \A sd \in Sides :
                               close_all_orders_by_mode_asset_side(u, m, a, sd, ts)
                                   => TimestampMismatch]_vars

\* C10 happens: a call with a wrong ts failed while the user had an order
\* open.
C10_Witness ==
    /\ last.status = "ValueError_timestamp"
    /\ \E acc \in AccountsOf(users) : acc.open_orders # <<>>

\* C11: update_current_timestamp sets current_ts to the bar after the old
\* current_ts on the tape of assets[0] and returns False, or leaves current_ts
\* as it is and returns True, the latter exactly when the old current_ts is
\* the last bar; so current_ts never decreases, never skips a bar and is
\* always a bar of the tape.
C11_ClockAdvancesOneBar ==
    [][last'.op = "update_current_timestamp" =>
          /\ current_ts' \in Bars
          /\ current_ts' >= current_ts
          /\ current_ts' <= current_ts + 1
          /\ IF current_ts = NBars
             THEN current_ts' = current_ts /\ last'.status = "True"
             ELSE current_ts' = current_ts + 1 /\ last'.status = "False"]_vars

\* the margin orders that are closed and in the history of their account:
\* closed by the user or liquidated
ClosedInHistory(u, id) ==
    /\ HasAccount(users, u, "margin")
    /\ id \in 1..Len(orders)
    /\ orders[id].closed
    /\ id \in Elems(get_account(users, u, "margin").history)

Exceptions ==
    {"ValueError", "ValueError_user", "ValueError_timestamp",
     "ValueError_account", "KeyError", "AttributeError", "TypeError"}

\* C13: close_order on a margin account for an order id that is neither in
\* open_orders nor in history raises an error to the caller instead of
\* returning, and changes no state.
C13_UnknownOrderIdRaises ==
    [][\A u \in UserIds, id \in 1..MaxOrders :
          (/\ HasAccount(users, u, "margin")
           /\ id \notin Elems(get_account(users, u, "margin").open_orders)
           /\ id \notin Elems(get_account(users, u, "margin").history)
           /\ CloseOrder(u, "margin", id, current_ts))
          => /\ last'.status \in Exceptions
             /\ UNCHANGED <<users, orders, current_ts>>]_vars

\* the call returned and left the accounts as they were
ReturnedUnchanged ==
    /\ last'.status \notin Exceptions
    /\ UNCHANGED <<users, orders, current_ts>>

\* C14: on a spot account every close the engine offers (close_order,
\* close_all_orders, close_all_orders_by_mode_asset,
\* close_all_orders_by_mode_asset_side) with ts = current_ts is a no-op: it
\* returns without an error and leaves cash, holdings and history unchanged.
C14_SpotCloseIsNoop ==
    [][\A u \in UserIds :
          HasAccount(users, u, "spot") =>
          /\ \A id \in 1..MaxOrders :
                 CloseOrder(u, "spot", id, current_ts) => ReturnedUnchanged
          /\ close_all_orders(u, "spot", current_ts) => ReturnedUnchanged
          /\ \A a \in AssetSet :
                 /\ close_all_orders_by_mode_asset(u, "spot", a, current_ts)
                        => ReturnedUnchanged
                 /\ \A sd \in Sides :
                        close_all_orders_by_mode_asset_side(u, "spot", a, sd,
                                                            current_ts)
                            => ReturnedUnchanged]_vars

\* the engine's calls that close orders for the user
CloseOps ==
    {"close_order", "close_all_orders", "close_all_orders_by_mode_asset",
     "close_all_orders_by_mode_asset_side"}

\* the margin orders the step closes for the user
ClosedNow(id) ==
    /\ id \in 1..Len(orders)
    /\ orders[id].mode = "margin"
    /\ ~orders[id].closed
    /\ orders'[id].closed
    /\ ~orders'[id].order_liquidated

\* the sum of closed_amount_user of the orders S after the step
RECURSIVE ClosedAmountUser(_)
ClosedAmountUser(S) ==
    IF S = {} THEN 0
    ELSE LET id == CHOOSE x \in S : TRUE
         IN  orders'[id].closed_amount_user + ClosedAmountUser(S \ {id})

\* the accounting identities of a closed margin order
CloseIdentities(o) ==
    /\ o.realized_pnl = o.closed_amount_user - o.open_amount_user
    /\ o.closed_amount_user = o.unrealized_pnl + o.open_amount_margin
                                  - o.trade_fee_close - o.borrow_fee_margin

\* C15: every margin order that close_order or a bulk close has closed (not
\* a liquidated one) has realized_pnl = closed_amount_user - open_amount_user
\* and closed_amount_user = unrealized_pnl + open_amount_margin
\* - trade_fee_close - borrow_fee_margin, and the close adds exactly
\* closed_amount_user to the cash of the account.
C15_CloseAccounting ==
    [][/\ \A id \in 1..Len(orders') :
              (/\ orders'[id].mode = "margin"
               /\ orders'[id].closed
               /\ ~orders'[id].order_liquidated)
              => CloseIdentities(orders'[id])
       /\ last'.op \in CloseOps =>
              \A u \in UserIds :
                  HasAccount(users, u, "margin") =>
                      get_account(users', u, "margin").cash
                          = get_account(users, u, "margin").cash
                            + ClosedAmountUser({id \in 1..Len(orders) :
                                                   ClosedNow(id)})]_vars

\* what opening order o adds to the holdings of its asset: +qty for a long,
\* -qty for a short position
OpenDelta(o) ==
    IF o.side \in LONG_POSITIONS THEN o.qty.val ELSE -o.qty.val

\* the open orders of the account that the step closes or liquidates
EndedNow(acc) ==
    {id \in Elems(acc.open_orders) : ~orders[id].closed /\ orders'[id].closed}

\* what the opens of the orders S had added to the holdings of `asset`:
\* OpenDelta for every entry the opens put into open_orders
RECURSIVE OpenedHoldings(_, _, _)
OpenedHoldings(acc, S, asset) ==
    IF S = {} THEN 0
    ELSE LET id == CHOOSE x \in S : TRUE
         IN  (IF orders[id].asset = asset
              THEN OpenDelta(orders[id]) * Occurrences(acc.open_orders, id)
              ELSE 0)
             + OpenedHoldings(acc, S \ {id}, asset)

\* C16: what opening a margin position added to holdings[asset] (+qty long,
\* -qty short) is exactly taken back when the position is closed or
\* liquidated: an open followed by the close or the liquidation of the order
\* leaves holdings[asset] at its value before the open.
C16_CloseUndoesOpen ==
    [][\A u \in UserIds :
          HasAccount(users, u, "margin") =>
          LET acc == get_account(users, u, "margin")
              acc2 == get_account(users', u, "margin")
          IN  /\ (last'.op = "place_order" /\ last'.status = "opened"
                  /\ acc2 # acc) =>
                     \E id \in 1..Len(orders') :
                         /\ acc2.open_orders = Append(acc.open_orders, id)
                         /\ acc2.holdings =
                                [acc.holdings EXCEPT ![orders'[id].asset] =
                                     @ + OpenDelta(orders'[id])]
              /\ EndedNow(acc) # {} =>
                     \A a \in AssetSet :
                         acc2.holdings[a] = acc.holdings[a]
                             - OpenedHoldings(acc, EndedNow(acc), a)]_vars

C18_MarginMarkToMarket ==
    [][last'.op = "update_current_timestamp" =>
          \A u \in UserIds :
              HasAccount(users, u, "margin") =>
                  /\ last'.status \notin Exceptions
                  /\ get_account(users', u, "margin").portfolio_value
                         = get_account(users, u, "margin").cash
                           + Margin_unrealized_cash(
                                 get_account(users, u, "margin").open_orders,
                                 orders, 1, current_ts)]_vars

\* what the assets S held in a spot account are worth at the close of bar
\* ts, after the fee of selling them
RECURSIVE SpotWorth(_, _, _)
SpotWorth(acc, S, ts) ==
    IF S = {} THEN 0
    ELSE LET a == CHOOSE x \in S : TRUE
             value == acc.holdings[a] * Close(a, ts) * 10^6
         IN  value - trade_fee("spot", value) + SpotWorth(acc, S \ {a}, ts)

\* C19: after update_current_timestamp has returned, the portfolio_value of
\* a spot account is its cash plus, for every asset it holds,
\* qty * price - trade_fee(spot, qty * price) at the price of the bar that
\* was valued, and the user's portfolio_value of the mode is the account's
\* portfolio_value; at a fee of 0.1% a holding worth 1000 with no cash is
\* valued 999.
C19_SpotMarkToMarket ==
    [][(last'.op = "update_current_timestamp"
        /\ last'.status \notin Exceptions) =>
          /\ 1000 * 10^6 - trade_fee("spot", 1000 * 10^6) = 999 * 10^6
          /\ \A k \in 1..Len(users) :
                 /\ "spot" \in DOMAIN users[k].accounts =>
                        users'[k].accounts["spot"].portfolio_value
                            = users[k].accounts["spot"].cash
                              + SpotWorth(users[k].accounts["spot"],
                                          {a \in AssetSet :
                                              users[k].accounts["spot"].holdings[a] # 0},
                                          current_ts)
                 /\ \A m \in DOMAIN users[k].accounts :
                        users'[k].portfolio_value[m]
                            = users'[k].accounts[m].portfolio_value]_vars

\* C19 happens: a spot account that holds an asset was valued and the clock
\* moved on.
C19_Witness ==
    /\ last = Called("update_current_timestamp", "False")
    /\ \E k \in 1..Len(users) :
           /\ "spot" \in DOMAIN users[k].accounts
           /\ users[k].accounts["spot"].holdings["B"] > 0
           /\ users[k].accounts["spot"].portfolio_value
                  # users[k].accounts["spot"].cash
           /\ users[k].portfolio_value["spot"]
                  = users[k].accounts["spot"].portfolio_value

\* C20: a margin order with a leverage above MARGIN_MAX_LEVERAGE (10) is
\* rejected and changes no state, so every order in the open_orders or the
\* history of a margin account has a leverage of at most 10.
C20_LeverageCapped ==
    [][/\ \A u \in UserIds, inp \in OrderInputs :
              (/\ inp.mode = "margin"
               /\ inp.leverage > 10
               /\ PlaceOrder(u, inp, current_ts))
              => UNCHANGED <<users, orders, current_ts>>
       /\ \A k \in 1..Len(users') :
              "margin" \in DOMAIN users'[k].accounts =>
                  \A id \in Elems(users'[k].accounts["margin"].open_orders)
                            \cup Elems(users'[k].accounts["margin"].history) :
                      orders'[id].leverage <= 10]_vars

\* C20 happens: an order with a leverage above the cap was turned down by a
\* margin account that has an order open.
C20_Witness ==
    /\ last = Called("place_order", "rejected_leverage")
    /\ \E k \in 1..Len(users) :
           /\ "margin" \in DOMAIN users[k].accounts
           /\ users[k].accounts["margin"].open_orders # <<>>

\* the quantity an open of the input resolves to, before it is truncated to
\* the quantity step: the maximum for ALL_CASH (none for a spot sell), the
\* holdings for ALL_HOLDINGS, the requested quantity otherwise
ResolvedQty(acc, inp, ts) ==
    LET px == _apply_slippage(Close(inp.asset, ts), inp.side, SLIPPAGE[inp.mode])
    IN  CASE inp.qty.kind = "all_cash" ->
                 IF inp.mode = "margin"
                 THEN Margin_max_open_qty(acc, px, inp.leverage)
                 ELSE Spot_max_open_qty(acc, px, inp.side)
          [] inp.qty.kind = "all_holdings" -> Spot_max_sell_qty(acc, inp.asset)
          [] OTHER -> inp.qty.val

\* C21: an open, spot or margin, whose quantity is <= 0 once ALL_CASH or
\* ALL_HOLDINGS is resolved and the quantity is truncated to the step is
\* rejected and leaves cash, holdings, open_orders and history as they are:
\* a quantity below one step, ALL_CASH with no cash, ALL_HOLDINGS with no
\* holdings, and a spot sell with ALL_CASH.
C21_NoQuantityIsRejected ==
    [][\A u \in UserIds, inp \in OrderInputs :
          (/\ HasAccount(users, u, inp.mode)
           /\ inp.mode = "margin" => inp.qty.kind # "all_holdings"
           /\ \/ ResolvedQty(get_account(users, u, inp.mode), inp, current_ts) <= 0
              \/ _round_qty(ResolvedQty(get_account(users, u, inp.mode), inp,
                                        current_ts)) <= 0
           /\ PlaceOrder(u, inp, current_ts))
          => ReturnedUnchanged]_vars

\* what an open of quantity q of the input takes from the cash at the bar
\* ts: margin + fee for a margin order, cost + fee for a spot buy
OpenCost(inp, q, ts) ==
    LET px == _apply_slippage(Close(inp.asset, ts), inp.side, SLIPPAGE[inp.mode])
        notional == Notional(q, px)
    IN  IF inp.mode = "margin"
        THEN (notional \div inp.leverage) + trade_fee("margin", notional)
        ELSE notional + trade_fee("spot", notional)

\* C22: the quantity an ALL_CASH open resolves to is the largest multiple q
\* of the quantity step with q * px * (1/leverage + fee_rate) <= cash for a
\* margin order and q * px * (1 + fee_rate) <= cash for a spot buy, px being
\* the slipped price; so whenever q > 0 the open passes the cash check and
\* leaves a cash that is >= 0 and below the cost of one more step.
C22_AllCashIsLargestAffordable ==
    [][\A u \in UserIds, inp \in OrderInputs :
          (/\ inp.qty.kind = "all_cash"
           /\ inp.mode = "margin" \/ inp.side \in {"buy", "long"}
           /\ HasAccount(users, u, inp.mode)
           /\ PlaceOrder(u, inp, current_ts))
          => LET acc == get_account(users, u, inp.mode)
                 acc2 == get_account(users', u, inp.mode)
                 q == ResolvedQty(acc, inp, current_ts)
             IN  /\ q % MINIMUM_QTY_STEP = 0
                 /\ q >= 0 =>
                        OpenCost(inp, q + MINIMUM_QTY_STEP, current_ts) > acc.cash
                 /\ q > 0 =>
                        /\ OpenCost(inp, q, current_ts) <= acc.cash
                        /\ last'.status \in {"opened", "filled"}
                        /\ acc2.cash = acc.cash - OpenCost(inp, q, current_ts)
                        /\ acc2.cash >= 0
                        /\ acc2.cash < OpenCost(inp, MINIMUM_QTY_STEP,
                                                current_ts)]_vars

\* C22 happens: an ALL_CASH order was opened by a margin account that had
\* spent part of its cash on another order.
C22_Witness ==
    /\ last = Called("place_order", "opened")
    /\ \E k \in 1..Len(users) :
           /\ "margin" \in DOMAIN users[k].accounts
           /\ Len(users[k].accounts["margin"].open_orders) = 2
           /\ Len(orders) = 2
           /\ orders[2].side = "short" /\ orders[2].asset = "A"
           /\ orders[2].qty.val > MINIMUM_QTY_STEP
           /\ users[k].accounts["margin"].cash
                  < OpenCost([asset |-> "A", side |-> "short", mode |-> "margin",
                              leverage |-> 10], MINIMUM_QTY_STEP, current_ts)

\* sequence s is the beginning of sequence t
IsPrefix(s, t) == Len(s) <= Len(t) /\ SubSeq(t, 1, Len(s)) = s

\* C23: the history of an account only grows at its end and closed orders
\* are immutable: no operation removes or reorders entries of a history, and
\* once an order is in a history no later operation (place_order with the
\* same order object, close_order on its id, a liquidation sweep, the
\* mark-to-market) changes any of its fields.
C23_HistoryAppendOnly ==
    [][\A k \in 1..Len(users) :
          \A m \in DOMAIN users[k].accounts :
              /\ k <= Len(users')
              /\ m \in DOMAIN users'[k].accounts
              /\ IsPrefix(users[k].accounts[m].history,
                          users'[k].accounts[m].history)
              /\ \A id \in Elems(users[k].accounts[m].history) :
                     orders'[id] = orders[id]]_vars

\* what the fill of spot order o does to the account: a buy pays cost + fee
\* and adds qty to the holdings, a sell takes qty from the holdings and
\* earns cost - fee; cost is qty at the slipped price of the bar
SpotFill(acc, acc2, o) ==
    LET px == Close(o.asset, current_ts)
                  * (IF o.side \in LONG_POSITIONS THEN 10^4 + SLIPPAGE_SPOT
                     ELSE 10^4 - SLIPPAGE_SPOT)
        cost == o.qty.val * px * 100
        fee == trade_fee("spot", cost)
    IN  /\ o.closed
        /\ o.entry_price = px
        /\ o.qty.val > 0
        /\ IF o.side \in LONG_POSITIONS
           THEN /\ acc2.cash = acc.cash - (cost + fee)
                /\ acc2.holdings = [acc.holdings EXCEPT ![o.asset] = @ + o.qty.val]
           ELSE /\ acc2.cash = acc.cash + (cost - fee)
                /\ acc2.holdings = [acc.holdings EXCEPT ![o.asset] = @ - o.qty.val]

\* C24: a spot order that executes is appended to history with closed = TRUE
\* in the call that fills it, a rejected spot order is not recorded, and the
\* open_orders of a spot account are empty in every reachable state; a buy
\* debits cost + fee and adds qty to the holdings, a sell takes qty from the
\* holdings and credits cost - fee.  No other call of an order or of the
\* clock touches the account (register_user makes a new one: C30).
C24_SpotFillsAtOnce ==
    [][\A k \in 1..Len(users) :
          "spot" \in DOMAIN users[k].accounts =>
          LET acc == users[k].accounts["spot"]
              acc2 == users'[k].accounts["spot"]
          IN  /\ acc2.open_orders = <<>>
              /\ IF last'.op = "place_order" /\ last'.status = "filled"
                 THEN \E id \in 1..Len(orders') :
                          /\ acc2.history = Append(acc.history, id)
                          /\ orders'[id].mode = "spot"
                          /\ SpotFill(acc, acc2, orders'[id])
                 ELSE last'.op # "register_user" =>
                          /\ acc2.history = acc.history
                          /\ acc2.cash = acc.cash
                          /\ acc2.holdings = acc.holdings]_vars

\* C24 happens: a spot account has filled a buy and then a sell.
C24_Witness ==
    /\ last = Called("place_order", "filled")
    /\ \E k \in 1..Len(users) :
           /\ "spot" \in DOMAIN users[k].accounts
           /\ Len(users[k].accounts["spot"].history) = 2
           /\ orders[users[k].accounts["spot"].history[2]].side = "sell"
           /\ users[k].accounts["spot"].holdings["B"] = 0

\* what the slippage costs on order o between its entry and its exit:
\* qty * (entry_price - exit_price) for a long, qty * (exit_price -
\* entry_price) for a short
SlippageLoss(o) ==
    IF o.side \in LONG_POSITIONS
    THEN o.qty.val * (o.entry_price - o.exit_price) * 100
    ELSE o.qty.val * (o.exit_price - o.entry_price) * 100

Money(c, f) == <<c + (f \div 10^7), f % 10^7>>
MoneyAdd(a, b) == Money(a[1] + b[1], a[2] + b[2])
MoneySub(a, b) == Money(a[1] - b[1], a[2] - b[2])
MoneyGeq(a, b) == a[1] > b[1] \/ (a[1] = b[1] /\ a[2] >= b[2])
MoneyDiv(a, k) == Money(a[1] \div k, ((a[1] % k) * 10^7 + a[2]) \div k)

\* `order.qty * px`
Notional_wide(qty, px) ==
    LET m == MulDivRem(qty, px, 10^4) IN Money(m[1], m[2] * 10^3)

\* FeeCalculator.trade_fee: notional * fee_struct[mode][acc_type]
trade_fee_wide(mode, notional) ==
    LET m == MulDivRem(notional[1], FEE_STRUCTURE[mode], 10^4)
    IN  Money(m[1], m[2] * 10^3 + ((notional[2] * FEE_STRUCTURE[mode]) \div 10^4))

\* SpotAccount._calculate_close_final_cash_value: <<cost + fee, cost, fee>>
Spot_calculate_close_final_cash_value_wide(px, qty) ==
    LET cost == Notional_wide(qty, px)
        fee == trade_fee_wide("spot", cost)
    IN  <<MoneyAdd(cost, fee), cost, fee>>

\* a maximum that forgets the fee: the fault C26 has to detect
Spot_max_open_qty_wide_no_fee(cash, px, side) ==
    IF px <= 0 THEN 0
    ELSE IF side \in {"buy", "long"}
    THEN LET m == MulDivRem(cash[1], 10^4, px)
         IN  m[1] + ((m[2] + (cash[2] \div 10^3)) \div px)
    ELSE None

\* SpotAccount.max_open_qty with the slipped price: cash / (px * (1 +
\* fee_rate)) truncated to the step by _round_qty, None for the sell side.
\* px * (1 + fee_rate) is taken in 1e-5, which is exact for the prices of
\* ScenarioPrices.
Spot_max_open_qty_wide(cash, px, side) ==
    IF px <= 0 THEN 0
    ELSE IF side \in {"buy", "long"}
    THEN LET pf == MulDivFloor(px, 10^4 + FEE_STRUCTURE["spot"], 10^3)
             m == MulDivRem(cash[1], 10^5, pf)
         IN  m[1] + ((m[2] + (cash[2] \div 100)) \div pf)
    ELSE None

\* SpotAccount.open of a fresh spot order on an account [cash, holdings] of
\* one asset at raw price `price`: [acc, qty, px, status]
Spot_open_wide(acc, price, qty, side) ==
    LET rejected(st) == [acc |-> acc, qty |-> qty, px |-> None, status |-> st]
        px == _apply_slippage(price, side, SLIPPAGE["spot"])
        q1 == CASE qty.kind = "all_cash" -> Spot_max_open_qty_wide(acc.cash, px, side)
                [] qty.kind = "all_holdings" -> IF acc.holdings > 0 THEN acc.holdings ELSE 0
                [] OTHER -> qty.val
        r == Spot_calculate_close_final_cash_value_wide(px, q1)
        filled(acc1) == [acc |-> acc1, qty |-> Exact(q1), px |-> px, status |-> "filled"]
    IN  IF qty.kind = "all_cash" /\ q1 = None THEN rejected("TypeError")
        ELSE IF q1 <= 0 THEN rejected("rejected_qty")
        ELSE IF side \in {"buy", "long"}
        THEN IF ~MoneyGeq(acc.cash, r[1]) THEN rejected("rejected_cash")
             ELSE filled([cash |-> MoneySub(acc.cash, r[1]),
                          holdings |-> acc.holdings + q1])
        ELSE IF ~(acc.holdings >= q1) THEN rejected("rejected_holdings")
             ELSE filled([holdings |-> acc.holdings - q1,
                          cash |-> MoneyAdd(acc.cash, MoneySub(r[2], r[3]))])

\* money / qty as a price in 1e-4 (qty > 0)
PerQty_wide(m, qty) ==
    LET d == MulDivRem(m[1], 10^4, qty)
    IN  d[1] + ((d[2] + (m[2] \div 10^3)) \div qty)

\* x * 0.0476190501
TimesRateMarginSell(x) ==
    LET hi == MulDivRem(x, RATE_MARGIN_SELL \div 10^5, 10^5)
        lo == MulDivFloor(x, RATE_MARGIN_SELL % 10^5, 10^5)
    IN  hi[1] + ((hi[2] + lo) \div 10^5)

\* a long formula that takes the maintenance rate of the posted margin
\* instead of the borrowed amount: the fault C27 has to detect
calculate_liquidation_price_margin_wide_rate_on_margin(position_type, entry_price, margin_balance, qty, leverage) ==
    [ok |-> TRUE,
     price |-> entry_price - (PerQty_wide(margin_balance, qty)
                              - MulDivFloor(PerQty_wide(margin_balance, qty),
                                            RATE_MARGIN_BUY, 100))]

\* calculate_liquidation_price_margin: [ok, price], ok = FALSE for the
\* ValueError raised; price in 1e-4
calculate_liquidation_price_margin_wide(position_type, entry_price, margin_balance, qty, leverage) ==
    LET notional_value == Notional_wide(qty, entry_price)
        initial_balance == MoneyDiv(notional_value, leverage)
        refused == \/ ~MoneyGeq(margin_balance, initial_balance)
                   \/ MoneyGeq(margin_balance, notional_value)
        per_qty == PerQty_wide(margin_balance, qty)
    IN  IF position_type \in {"buy", "long"}
        THEN IF refused THEN [ok |-> FALSE, price |-> None]
             ELSE LET mamr_drop == MulDivFloor(
                          PerQty_wide(MoneySub(notional_value, margin_balance), qty),
                          RATE_MARGIN_BUY, 100)
                  IN  [ok |-> TRUE, price |-> entry_price - (per_qty - mamr_drop)]
        ELSE IF position_type \in {"sell", "short"}
        THEN IF refused THEN [ok |-> FALSE, price |-> None]
             ELSE LET mamr_drop == TimesRateMarginSell(
                          PerQty_wide(MoneyAdd(notional_value, margin_balance), qty))
                  IN  [ok |-> TRUE, price |-> entry_price + (per_qty - mamr_drop)]
        ELSE [ok |-> FALSE, price |-> None]

\* MarginAccount.open from the executed price px on: the notional, the
\* posted margin, the open fee and the liquidation price of the order
Margin_open_terms_wide(px, qty, leverage, side) ==
    LET notional == Notional_wide(qty, px)
        margin == MoneyDiv(notional, leverage)
        fee == trade_fee_wide("margin", notional)
        liq == calculate_liquidation_price_margin_wide(side, px, margin, qty, leverage)
    IN  [notional |-> notional, margin |-> margin, fee |-> fee,
         status |-> IF liq.ok THEN "open" ELSE "rejected_liquidation_price",
         liquidation_price |-> liq.price]

(***************************************************************************)
(* engine/accounts/liquidation_price.py, futures branch.  Amounts in whole *)
(* currency units, mmr in 1e-4, the liquidation price in 1e-2 truncated    *)
(* toward zero.                                                            *)
(***************************************************************************)
tiers ==
    << [min |-> 0, max |-> 300000, max_leverage |-> 125, mmr |-> 40, ma |-> 0],
       [min |-> 300000, max |-> 800000, max_leverage |-> 100, mmr |-> 50, ma |-> 300],
       [min |-> 800000, max |-> 3000000, max_leverage |-> 75, mmr |-> 65, ma |-> 1500],
       [min |-> 3000000, max |-> 12000000, max_leverage |-> 50, mmr |-> 100, ma |-> 12000],
       [min |-> 12000000, max |-> 70000000, max_leverage |-> 25, mmr |-> 200, ma |-> 132000],
       [min |-> 70000000, max |-> 100000000, max_leverage |-> 20, mmr |-> 250, ma |-> 482000],
       [min |-> 100000000, max |-> 230000000, max_leverage |-> 10, mmr |-> 500, ma |-> 2982000],
       [min |-> 230000000, max |-> 480000000, max_leverage |-> 5, mmr |-> 1000, ma |-> 14482000],
       [min |-> 480000000, max |-> 600000000, max_leverage |-> 4, mmr |-> 1250, ma |-> 26482000],
       [min |-> 600000000, max |-> 800000000, max_leverage |-> 3, mmr |-> 1500, ma |-> 41482000],
       [min |-> 800000000, max |-> 1200000000, max_leverage |-> 2, mmr |-> 2500, ma |-> 121482000],
       [min |-> 1200000000, max |-> 1800000000, max_leverage |-> 1, mmr |-> 5000, ma |-> 421482000] >>

\* a bracket test that closes the interval on the right: the fault C29 has
\* to detect
tier_holds_closed(tier, notional_value) ==
    tier.min <= notional_value /\ notional_value <= tier.max

\* `if tier["min"] <= notional_value < tier["max"]:`
tier_holds(tier, notional_value) ==
    tier.min <= notional_value /\ notional_value < tier.max

\* the `for tier in tiers:` loop of get_maintenance_data from tier i on:
\* [ok, mmr, ma], ok = FALSE for either ValueError
RECURSIVE get_maintenance_data_from(_, _, _)
get_maintenance_data_from(i, notional_value, leverage) ==
    IF i > Len(tiers) THEN [ok |-> FALSE, mmr |-> None, ma |-> None]
    ELSE IF tier_holds(tiers[i], notional_value)
    THEN IF leverage <= tiers[i].max_leverage
         THEN [ok |-> TRUE, mmr |-> tiers[i].mmr, ma |-> tiers[i].ma]
         ELSE [ok |-> FALSE, mmr |-> None, ma |-> None]
    ELSE get_maintenance_data_from(i + 1, notional_value, leverage)

\* a lookup that leaves the maintenance amount of the bracket out: the fault
\* C38 has to detect
get_maintenance_data_no_amount(notional_value, leverage) ==
    [get_maintenance_data_from(1, notional_value, leverage) EXCEPT !.ma = 0]

get_maintenance_data(notional_value, leverage) ==
    get_maintenance_data_from(1, notional_value, leverage)

\* (margin_balance + ma - qty * entry_price) / (qty * mmr - qty)
futures_liquidation_price_long(margin_balance, ma, mmr, qty, entry_price) ==
    MulDivTrunc(qty * entry_price - margin_balance - ma, 10^6, qty * (10^4 - mmr))

\* a short formula that leaves the maintenance amount out: the fault C28 has
\* to detect
futures_liquidation_price_short_no_ma(margin_balance, ma, mmr, qty, entry_price) ==
    MulDivTrunc(margin_balance + qty * entry_price, 10^6, qty * (10^4 + mmr))

\* (margin_balance + ma + qty * entry_price) / (qty * mmr + qty)
futures_liquidation_price_short(margin_balance, ma, mmr, qty, entry_price) ==
    MulDivTrunc(margin_balance + ma + qty * entry_price, 10^6, qty * (10^4 + mmr))

\* calculate_liquidation_price_futures_new: [ok, price], ok = FALSE for the
\* ValueError raised (leverage >= 1, qty >= 1); margin_balance <
\* notional_value / leverage is compared without the division
calculate_liquidation_price_futures_new(position_type, entry_price, margin_balance, qty, leverage) ==
    LET notional_value == entry_price * qty
        m == get_maintenance_data(notional_value, leverage)
        raised == [ok |-> FALSE, price |-> None]
    IN  IF ~m.ok THEN raised
        ELSE IF margin_balance <= (notional_value - 1) \div leverage THEN raised
        ELSE IF position_type \in {"long", "buy"}
        THEN IF margin_balance >= notional_value THEN [ok |-> TRUE, price |-> 0]
             ELSE [ok |-> TRUE,
                   price |-> futures_liquidation_price_long(margin_balance, m.ma, m.mmr, qty, entry_price)]
        ELSE IF position_type \in {"short", "sell"}
        THEN [ok |-> TRUE,
              price |-> futures_liquidation_price_short(margin_balance, m.ma, m.mmr, qty, entry_price)]
        ELSE raised

(***************************************************************************)
(* The calculations of the accounts as calls of their own: an argument     *)
(* list is drawn, then the call is made and `last` holds what it returned. *)
(***************************************************************************)
ScenarioCash == {0, 10000, 20000}
ScenarioPrices == {20, 60, 100}
ScenarioEntries == {1000000, 1000700}
ScenarioQtys == {50000, 100000}
ScenarioLeverages == {1, 2, 5, 10}
FuturesEntries == {-5, 0, 29999, 30000, 80000, 100000, 299999, 300000, 1200000, 1799999, 1800000}
FuturesQtys == {1, 10, 1000}
FuturesLeverages == {1, 10, 100, 101, 126}
FuturesSides == {"long", "short", "hold"}

\* the quantities handed to _round_qty, in 1e-6: up to four steps, and
\* negative ones
RoundQtyInputs == -25..45

\* the tapes an engine is built from: for every asset the timestamps of its
\* CSV file, sorted by MarketData.__init__ (sort_index)
TapeInputs == [AssetSet -> SUBSET {1, 2, 3}]

\* the margin balances tried for a notional: the least one that covers
\* notional / leverage, one unit less, and the notional itself
FuturesBalances(notional_value, leverage) ==
    {-((-notional_value) \div leverage), -((-notional_value) \div leverage) - 1,
     notional_value}

\* MarketData.get_first_timestamp(asset): [ok, ts], ok = FALSE for the
\* ValueError of an empty file
Tape_get_first_timestamp(asset_data, asset) ==
    IF asset_data[asset] = {} THEN [ok |-> FALSE, ts |-> None]
    ELSE [ok |-> TRUE,
          ts |-> CHOOSE t \in asset_data[asset] : \A x \in asset_data[asset] : t <= x]

\* MarketData.get_next_timestamp(asset, timestamp): [ok, done, ts]
Tape_get_next_timestamp(asset_data, asset, timestamp) ==
    IF timestamp \notin asset_data[asset]
    THEN [ok |-> FALSE, done |-> FALSE, ts |-> None]
    ELSE LET later == {x \in asset_data[asset] : x > timestamp}
         IN  IF later = {} THEN [ok |-> TRUE, done |-> TRUE, ts |-> None]
             ELSE [ok |-> TRUE, done |-> FALSE,
                   ts |-> CHOOSE t \in later : \A x \in later : t <= x]

\* MarketData.get_price(asset, timestamp) finds a row
Tape_has_price(asset_data, asset, timestamp) == timestamp \in asset_data[asset]

\* TradingEngine.__init__(asset_paths): MarketData(asset_paths), then
\* current_ts = md.get_first_timestamp(assets[0]); no other test is made
TradingEngine_init(asset_data) == Tape_get_first_timestamp(asset_data, assets[1])

InitCalc ==
    /\ users = <<>>
    /\ orders = <<>>
    /\ current_ts = get_first_timestamp(assets[1])
    /\ \/ \E cash \in ScenarioCash, price \in ScenarioPrices :
              last = [op |-> "args", fn |-> "SpotAccount.open",
                      cash |-> cash, price |-> price]
       \/ \E px \in ScenarioEntries, qty \in ScenarioQtys, leverage \in ScenarioLeverages, side \in {"long", "short"} :
              last = [op |-> "args", fn |-> "MarginAccount.open",
                      px |-> px, qty |-> qty, leverage |-> leverage, side |-> side]
       \/ \E entry_price \in FuturesEntries, qty \in FuturesQtys, leverage \in FuturesLeverages, position_type \in FuturesSides :
          \E margin_balance \in FuturesBalances(entry_price * qty, leverage) :
              /\ position_type = "short" => entry_price * qty <= 800000000
              /\ last = [op |-> "args", fn |-> "calculate_liquidation_price",
                         position_type |-> position_type, entry_price |-> entry_price,
                         margin_balance |-> margin_balance, qty |-> qty,
                         leverage |-> leverage]
       \/ \E asset_data \in TapeInputs :
              last = [op |-> "args", fn |-> "TradingEngine", asset_data |-> asset_data]
       \/ \E qty \in RoundQtyInputs :
              last = [op |-> "args", fn |-> "_round_qty", qty |-> qty]

\* a spot account of `cash` buys ALL_CASH at the bar's price
CalcSpotBuyAllCash ==
    /\ last.op = "args" /\ last.fn = "SpotAccount.open"
    /\ LET r == Spot_open_wide([cash |-> Money(last.cash * 10^5, 0), holdings |-> 0],
                               last.price, AllCash, "buy")
       IN  last' = [op |-> "spot_buy", status |-> r.status, cash |-> last.cash,
                    price |-> last.price, acc |-> r.acc, qty |-> r.qty, px |-> r.px]
    /\ UNCHANGED <<users, orders, current_ts>>

\* the same account sells ALL_HOLDINGS on the same bar
CalcSpotSellAllHoldings ==
    /\ last.op = "spot_buy"
    /\ LET r == Spot_open_wide(last.acc, last.price, AllHoldings, "sell")
       IN  last' = [op |-> "spot_sell", status |-> r.status, cash |-> last.cash,
                    price |-> last.price, acc |-> r.acc, qty |-> r.qty, px |-> r.px]
    /\ UNCHANGED <<users, orders, current_ts>>

CalcMarginOpen ==
    /\ last.op = "args" /\ last.fn = "MarginAccount.open"
    /\ LET r == Margin_open_terms_wide(last.px, last.qty, last.leverage, last.side)
       IN  last' = [op |-> "margin_open", status |-> r.status, px |-> last.px,
                    qty |-> last.qty, leverage |-> last.leverage, side |-> last.side,
                    margin |-> r.margin, fee |-> r.fee,
                    liquidation_price |-> r.liquidation_price]
    /\ UNCHANGED <<users, orders, current_ts>>

CalcLiquidationPriceFutures ==
    /\ last.op = "args" /\ last.fn = "calculate_liquidation_price"
    /\ LET r == calculate_liquidation_price_futures_new(last.position_type,
                    last.entry_price, last.margin_balance, last.qty, last.leverage)
           m == get_maintenance_data(last.entry_price * last.qty, last.leverage)
       IN  last' = [op |-> "futures", status |-> IF r.ok THEN "ok" ELSE "ValueError",
                    position_type |-> last.position_type,
                    entry_price |-> last.entry_price,
                    margin_balance |-> last.margin_balance, qty |-> last.qty,
                    leverage |-> last.leverage, price |-> r.price,
                    maintenance |-> m]
    /\ UNCHANGED <<users, orders, current_ts>>

\* engine = TradingEngine(asset_paths)
CalcTradingEngine ==
    /\ last.op = "args" /\ last.fn = "TradingEngine"
    /\ LET r == TradingEngine_init(last.asset_data)
       IN  /\ last' = [op |-> "TradingEngine", asset_data |-> last.asset_data,
                        status |-> IF r.ok THEN "ok" ELSE "ValueError"]
           /\ current_ts' = IF r.ok THEN r.ts ELSE current_ts
    /\ UNCHANGED <<users, orders>>

\* the engine is built and its clock has not failed
TapeEngineRuns ==
    \/ last.op = "TradingEngine" /\ last.status = "ok"
    \/ last.op = "get_price"
    \/ last.op = "update_current_timestamp" /\ last.status = "False"

\* md.get_price(asset, current_ts), as check_liquidations, the accounts and
\* update_portfolio_values call it
CalcGetPrice ==
    /\ TapeEngineRuns
    /\ \E asset \in AssetSet :
           last' = [op |-> "get_price", asset_data |-> last.asset_data, asset |-> asset,
                    status |-> IF Tape_has_price(last.asset_data, asset, current_ts)
                               THEN "ok" ELSE "ValueError"]
    /\ UNCHANGED <<users, orders, current_ts>>

\* update_current_timestamp() of an engine without users
CalcUpdateCurrentTimestamp ==
    /\ TapeEngineRuns
    /\ LET nxt == Tape_get_next_timestamp(last.asset_data, assets[1], current_ts)
       IN  /\ last' = [op |-> "update_current_timestamp", asset_data |-> last.asset_data,
                        status |-> IF ~nxt.ok THEN "ValueError"
                                   ELSE IF nxt.done THEN "True" ELSE "False"]
           /\ current_ts' = IF nxt.ok /\ ~nxt.done THEN nxt.ts ELSE current_ts
    /\ UNCHANGED <<users, orders>>

\* self._round_qty(qty)
CalcRoundQty ==
    /\ last.op = "args" /\ last.fn = "_round_qty"
    /\ last' = [op |-> "_round_qty", qty |-> last.qty, result |-> _round_qty(last.qty)]
    /\ UNCHANGED <<users, orders, current_ts>>

NextCalc ==
    \/ CalcRoundQty
    \/ CalcTradingEngine
    \/ CalcGetPrice
    \/ CalcUpdateCurrentTimestamp
    \/ CalcSpotBuyAllCash
    \/ CalcSpotSellAllHoldings
    \/ CalcMarginOpen
    \/ CalcLiquidationPriceFutures

SpecCalc == InitCalc /\ [][NextCalc]_vars

(***************************************************************************)
(* C26 .. C29: the documented scenarios, under SpecCalc.                   *)
(***************************************************************************)
\* C26 as the specification words it: with cash 10000, price 100, slippage
\* 0.05% and fee 0.1% the ALL_CASH buy executes at 100.05 with resolved
\* quantity 99.85020, leaves cash = 0 up to a residual of at most 1e-5 and
\* holdings of 99.85020; selling ALL_HOLDINGS on the same bar returns the
\* holdings to 0.
C26_SpotAllCashScenario ==
    /\ (last.op = "spot_buy" /\ last.cash = 10000 /\ last.price = 100) =>
           /\ last.status = "filled"
           /\ last.px = 1000500
           /\ last.qty.val = 9985020
           /\ last.acc.holdings = 9985020
           /\ MoneyGeq(Money(1, 0), last.acc.cash)
    /\ (last.op = "spot_sell" /\ last.cash = 10000 /\ last.price = 100) =>
           last.status = "filled" /\ last.acc.holdings = 0

\* C26 as the code has it: the buy executes at 100.05 with resolved quantity
\* 99.85017 (10000 / (100.05 * 1.001) = 99.850174..., truncated to the
\* step), holdings become 99.85017 and the cash left is 0.00048199..., which
\* is more than 1e-5 and less than the price of one more step with its fee;
\* selling ALL_HOLDINGS on the same bar returns the holdings to 0.
C26_SpotAllCashScenarioAmended ==
    /\ (last.op = "spot_buy" /\ last.cash = 10000 /\ last.price = 100) =>
           /\ last.status = "filled"
           /\ last.px = 1000500
           /\ last.qty.val = 9985017
           /\ last.acc.holdings = 9985017
           /\ last.acc.cash = Money(48, 1991500)
           /\ ~MoneyGeq(last.acc.cash,
                        Spot_calculate_close_final_cash_value_wide(last.px, 1)[1])
    /\ (last.op = "spot_sell" /\ last.cash = 10000 /\ last.price = 100) =>
           /\ last.status = "filled"
           /\ last.px = 999500
           /\ last.qty.val = 9985017
           /\ last.acc.holdings = 0

\* C26 happens: the scenario's account bought ALL_CASH and sold ALL_HOLDINGS.
C26_Witness ==
    /\ last.op = "spot_sell"
    /\ last.cash = 10000 /\ last.price = 100
    /\ last.status = "filled"
    /\ last.acc.holdings = 0

\* C27 as the specification words it: a margin long with entry price 100,
\* quantity 1 and leverage 5 posts a margin of 20, pays an open fee of 0.1
\* and has a liquidation price of approximately 81.0 (within 0.05 of it).
C27_MarginLongScenario ==
    (/\ last.op = "margin_open" /\ last.side = "long"
     /\ last.px = 1000000 /\ last.qty = 100000 /\ last.leverage = 5) =>
        /\ last.status = "open"
        /\ last.margin = Money(2000000, 0)
        /\ last.fee = Money(10000, 0)
        /\ last.liquidation_price >= 809500
        /\ last.liquidation_price <= 810500

\* C27 as the code has it: the margin is 20, the open fee is 0.1 and the
\* isolated-margin formula with long rate 0.05 gives the liquidation price
\* 100 - (20 - 0.05 * (100 - 20)) = 84.0.
C27_MarginLongScenarioAmended ==
    (/\ last.op = "margin_open" /\ last.side = "long"
     /\ last.px = 1000000 /\ last.qty = 100000 /\ last.leverage = 5) =>
        /\ last.status = "open"
        /\ last.margin = Money(2000000, 0)
        /\ last.fee = Money(10000, 0)
        /\ last.liquidation_price = 840000

\* C27 happens: the long of the scenario was opened and got a liquidation
\* price below its entry.
C27_Witness ==
    /\ last.op = "margin_open" /\ last.side = "long"
    /\ last.px = 1000000 /\ last.qty = 100000 /\ last.leverage = 5
    /\ last.status = "open"
    /\ last.liquidation_price < last.px

\* C28 as the specification words it: a futures short with entry 100000,
\* quantity 10, leverage 10 and margin balance 100000 is looked up in the
\* bracket [0, 300k) with mmr 0.004 and maintenance amount 0, and its
\* liquidation price is 1100000 / 10.04, about 109561.75.
C28_FuturesShortScenario ==
    (/\ last.op = "futures" /\ last.position_type = "short"
     /\ last.entry_price = 100000 /\ last.qty = 10 /\ last.leverage = 10
     /\ last.margin_balance = 100000) =>
        /\ last.status = "ok"
        /\ last.maintenance = [ok |-> TRUE, mmr |-> tiers[1].mmr, ma |-> tiers[1].ma]
        /\ last.price >= 10956174
        /\ last.price <= 10956176

\* C28 as the code has it: the notional is 100000 * 10 = 1000000, so the
\* lookup selects the bracket [800k, 3M) with mmr 0.0065 and maintenance
\* amount 1500, and the liquidation price is (margin_balance + MA +
\* qty*entry) / (qty*mmr + qty) = 1101500 / 10.065, about 109438.65.
C28_FuturesShortScenarioAmended ==
    (/\ last.op = "futures" /\ last.position_type = "short"
     /\ last.entry_price = 100000 /\ last.qty = 10 /\ last.leverage = 10
     /\ last.margin_balance = 100000) =>
        /\ last.status = "ok"
        /\ tier_holds(tiers[3], last.entry_price * last.qty)
        /\ last.maintenance = [ok |-> TRUE, mmr |-> 65, ma |-> 1500]
        /\ last.price = MulDivFloor(1101500, 10^6, 100650)
        /\ last.price >= 10943864
        /\ last.price <= 10943865

\* C28 happens: the short of the scenario got its liquidation price, above
\* its entry.
C28_Witness ==
    /\ last.op = "futures" /\ last.position_type = "short"
    /\ last.entry_price = 100000 /\ last.qty = 10 /\ last.leverage = 10
    /\ last.margin_balance = 100000
    /\ last.status = "ok"
    /\ last.price > last.entry_price * 100

\* C29: the futures maintenance lookup returns the (mmr, maintenance amount)
\* of the one bracket with min <= notional < max, so that a notional on a
\* bracket boundary gets the upper bracket; the call is rejected when the
\* leverage exceeds that bracket's max leverage and when the notional is
\* negative or >= 1.8e9; and a long whose margin balance is at least the
\* notional, once looked up, gets the liquidation price 0.0.
C29_MaintenanceLookup ==
    last.op = "futures" =>
        LET notional_value == last.entry_price * last.qty
            inside == {i \in 1..Len(tiers) :
                          tiers[i].min <= notional_value /\ notional_value < tiers[i].max}
        IN  /\ Cardinality(inside) <= 1
            /\ (inside = {}) <=> (notional_value < 0 \/ notional_value >= 1800000000)
            /\ inside = {} => ~last.maintenance.ok /\ last.status = "ValueError"
            /\ \A i \in inside :
                   IF last.leverage > tiers[i].max_leverage
                   THEN ~last.maintenance.ok /\ last.status = "ValueError"
                   ELSE last.maintenance = [ok |-> TRUE, mmr |-> tiers[i].mmr, ma |-> tiers[i].ma]
            /\ \A i \in 1..(Len(tiers) - 1) :
                   (notional_value = tiers[i].max /\ last.leverage <= tiers[i + 1].max_leverage) =>
                       /\ last.maintenance.ok
                       /\ last.maintenance.mmr = tiers[i + 1].mmr
                       /\ last.maintenance.mmr # tiers[i].mmr
            /\ (/\ last.maintenance.ok
                /\ last.position_type \in {"long", "buy"}
                /\ last.margin_balance >= notional_value) =>
                   last.status = "ok" /\ last.price = 0

\* C29 happens: a notional on the boundary 300000 was looked up with a
\* leverage its upper bracket allows and got that bracket's rate.
C29_Witness ==
    /\ last.op = "futures"
    /\ last.entry_price * last.qty = tiers[1].max
    /\ last.leverage = tiers[2].max_leverage
    /\ last.maintenance = [ok |-> TRUE, mmr |-> tiers[2].mmr, ma |-> tiers[2].ma]

\* C30: register_user called with a user_id that is already registered
\* raises an error and leaves the existing user's accounts (cash, holdings,
\* open_orders, history) unchanged.
C30_RegisterTwiceRaises ==
    [][\A k \in 1..Len(users) :
          (last'.op = "register_user" /\ Len(users') = Len(users)) =>
              /\ last'.status \in Exceptions
              /\ users'[k].accounts = users[k].accounts]_vars

\* the outcomes of a user action that did not go through: a local rejection
\* or an exception
NotDone ==
    {"rejected_cash", "rejected_closed", "rejected_holdings", "rejected_leverage",
     "rejected_liquidation_price", "rejected_mode", "rejected_qty"} \cup Exceptions

\* C31: only update_current_timestamp changes current_ts: place_order,
\* close_order, the close_all calls, step_simulation and register_user leave
\* it as it is whether they succeed, are rejected or raise; and after a
\* rejected or failed user action the next update_current_timestamp advances
\* the clock normally (to the next bar, or stays on the last bar and returns
\* True).
C31_OnlyTheClockCallMovesTheClock ==
    [][/\ last'.op # "update_current_timestamp" => current_ts' = current_ts
       /\ (/\ last.op \in {"place_order"} \cup CloseOps
           /\ last.status \in NotDone
           /\ last'.op = "update_current_timestamp") =>
              IF current_ts = NBars
              THEN current_ts' = current_ts /\ last'.status = "True"
              ELSE current_ts' = current_ts + 1 /\ last'.status = "False"]_vars

\* C32: an engine built from a multi-asset tape whose assets do not share
\* the same timestamps is rejected at construction; so in no reachable state
\* does current_ts (paced on assets[0]) lack a bar of another asset, and no
\* price lookup at current_ts fails.
C32_MismatchedTapesRejected ==
    /\ (/\ last.op = "TradingEngine"
        /\ \E a \in AssetSet : last.asset_data[a] # last.asset_data[assets[1]])
           => last.status \in Exceptions
    /\ (last.op \in {"TradingEngine", "get_price", "update_current_timestamp"}
        /\ last.status \notin Exceptions)
           => \A a \in AssetSet : Tape_has_price(last.asset_data, a, current_ts)
    /\ last.op = "get_price" => last.status = "ok"

MaxSweepOrders == 3      \* orders the accounts take in

SweepOrderInputs ==
    { [asset |-> "C", qty |-> Exact(10), side |-> "long", mode |-> "margin", leverage |-> 5],
      [asset |-> "B", qty |-> Exact(10), side |-> "short", mode |-> "margin", leverage |-> 2],
      [asset |-> "A", qty |-> Exact(10), side |-> "long", mode |-> "margin", leverage |-> 10],
      [asset |-> "B", qty |-> Exact(10), side |-> "long", mode |-> "margin", leverage |-> 2] }

NextSweep ==
    \/ \E inp \in RegisterInputs : register_user(inp[1], inp[2], inp[3], inp[4], inp[5])
    \/ \E u \in UserIds, inp \in SweepOrderInputs, ts \in TsInputs :
           PlaceOrderUpTo(MaxSweepOrders, u, inp, ts)
    \/ \E um \in AccountInputs, id \in 1..MaxSweepOrders, ts \in TsInputs :
           CloseOrder(um[1], um[2], id, ts)
    \/ step_simulation
    \/ update_current_timestamp

SpecSweep == Init /\ [][NextSweep]_vars

\* the sweep's get_price(order.asset, current_ts) raises for the open order
LookupFails(o, now) == ~o.closed /\ ~HasPrice(o.asset, now)

\* the orders in the open_orders lists of the users us[k..]
RECURSIVE OpenOrderIds(_, _)
OpenOrderIds(us, k) ==
    IF k > Len(us) THEN {}
    ELSE UNION {Elems(us[k].accounts[m].open_orders) : m \in DOMAIN us[k].accounts}
         \cup OpenOrderIds(us, k + 1)

\* C34: when the price lookup of the sweep fails for one open order, the
\* failure is caught for that order only: step_simulation returns normally
\* and every other open order that meets the liquidation condition at the
\* current bar is liquidated in the same sweep.
C34_SweepFailureCaughtPerOrder ==
    [][(/\ last'.op = "step_simulation"
        /\ \E id \in OpenOrderIds(users, 1) : LookupFails(orders[id], current_ts))
       => /\ last'.status = "ok"
          /\ \A id \in OpenOrderIds(users, 1) :
                 MeetsLiquidation(orders[id], current_ts)
                     => orders'[id].order_liquidated]_vars

\* holdings the long and short orders ids[i..] of a margin account stand for
RECURSIVE OpenHoldings(_, _, _)
OpenHoldings(ids, i, asset) ==
    IF i > Len(ids) THEN 0
    ELSE (IF orders[ids[i]].asset # asset THEN 0
          ELSE IF orders[ids[i]].side \in LONG_POSITIONS THEN orders[ids[i]].qty.val
          ELSE -orders[ids[i]].qty.val)
         + OpenHoldings(ids, i + 1, asset)

\* C35: in every reachable state of a margin account, for every asset,
\* holdings[asset] is the sum of qty over its open long orders of the asset
\* minus the sum of qty over its open short orders of the asset; so it is 0
\* when the account has no open order on the asset, also after rejected opens.
C35_MarginHoldingsMatchOpenOrders ==
    \A k \in 1..Len(users) :
        "margin" \in DOMAIN users[k].accounts =>
            \A a \in AssetSet :
                users[k].accounts["margin"].holdings[a]
                    = OpenHoldings(users[k].accounts["margin"].open_orders, 1, a)

\* sum of open_amount_user over the orders ids[i..] that satisfy `liquidated`
\* as given (open orders are not liquidated)
RECURSIVE SumOpenAmountUser(_, _, _)
SumOpenAmountUser(ids, i, liquidated) ==
    IF i > Len(ids) THEN 0
    ELSE (IF orders[ids[i]].order_liquidated = liquidated
          THEN orders[ids[i]].open_amount_user ELSE 0)
         + SumOpenAmountUser(ids, i + 1, liquidated)

\* sum of realized_pnl over the orders ids[i..] that were not liquidated
RECURSIVE SumRealizedPnl(_, _)
SumRealizedPnl(ids, i) ==
    IF i > Len(ids) THEN 0
    ELSE (IF orders[ids[i]].order_liquidated THEN 0 ELSE orders[ids[i]].realized_pnl)
         + SumRealizedPnl(ids, i + 1)

\* C36: cash conservation of a margin account: in every reachable state
\* cash = initial_cash - (sum of open_amount_user over the open orders)
\* - (sum of open_amount_user over the liquidated orders in history)
\* + (sum of realized_pnl over the other orders in history).
C36_MarginCashConservation ==
    \A k \in 1..Len(users) :
        "margin" \in DOMAIN users[k].accounts =>
            LET acc == users[k].accounts["margin"]
            IN  acc.cash = acc.initial_cash
                           - SumOpenAmountUser(acc.open_orders, 1, FALSE)
                           - SumOpenAmountUser(acc.history, 1, TRUE)
                           + SumRealizedPnl(acc.history, 1)

C38_TierTablePartition ==
    /\ tiers[1].min = 0
    /\ tiers[Len(tiers)].max = 1800000000
    /\ \A i \in 1..Len(tiers) : tiers[i].min < tiers[i].max
    /\ \A i \in 1..(Len(tiers) - 1) :
           /\ tiers[i].max = tiers[i + 1].min
           /\ tiers[i].max_leverage >= tiers[i + 1].max_leverage
           /\ tiers[i].mmr <= tiers[i + 1].mmr
           /\ tiers[i].max % 10^4 = 0
           /\ (tiers[i].max \div 10^4) * tiers[i].mmr - tiers[i].ma
                  = (tiers[i].max \div 10^4) * tiers[i + 1].mmr - tiers[i + 1].ma
    /\ (last.op = "futures" /\ last.maintenance.ok) =>
           \A i \in 1..(Len(tiers) - 1) :
               last.entry_price * last.qty = tiers[i].max =>
                   (tiers[i].max \div 10^4) * last.maintenance.mmr - last.maintenance.ma
                       = (tiers[i].max \div 10^4) * tiers[i].mmr - tiers[i].ma

\* C38 happens: a notional on the boundary 800000 of the second and the third
\* bracket was looked up.
C38_Witness ==
    /\ last.op = "futures"
    /\ last.entry_price * last.qty = tiers[2].max
    /\ last.maintenance.ok
    /\ last.maintenance.ma = tiers[3].ma

(***************************************************************************)
(* The driver as a running program: the interpreter executes the next      *)
(* statement of run_simulation, so the registration is followed by the     *)
(* first pass, and every pass, whose pipeline is a finite list, reaches    *)
(* its update_current_timestamp.                                           *)
(***************************************************************************)
\* WF_vars(RunAdvance) with its ENABLED written out: update_current_timestamp
\* can be called, and changes `last`, in exactly the states of run_in_bar
RunAdvanceFair == []<>(~run_in_bar) \/ []<><<RunAdvance>>_vars

SpecRunFair ==
    SpecRun /\ WF_vars(RunRegister) /\ WF_vars(RunSweep) /\ RunAdvanceFair

\* run_simulation left its loop: update_current_timestamp returned True
RunDone == last.op = "update_current_timestamp" /\ last.status = "True"

\* C39: on the tape of NBars bars the driver loop ends: it makes one pass per
\* bar from the first bar on, the clock moving only in the pass's
\* update_current_timestamp and by one bar, so that every bar is visited once
\* in increasing order, and after the pass of the last bar
\* update_current_timestamp returns True, whatever orders were accepted or
\* rejected along the way.
C39_RunEndsAfterEveryBar ==
    /\ [][/\ current_ts' # current_ts =>
                 /\ last'.op = "update_current_timestamp"
                 /\ current_ts' = current_ts + 1
          /\ (last'.op = "step_simulation" /\ last.op = "register_user") =>
                 current_ts = get_first_timestamp(assets[1])
          /\ (last'.op = "update_current_timestamp" /\ last'.status = "True") =>
                 current_ts = NBars]_vars
    /\ <>(RunDone /\ current_ts = NBars)

====
